---- MODULE Spec2Model ----
(***************************************************************************)
(* Remote Workspace server (server.ts): path sandbox, visibility filter,   *)
(* Basic-Auth gateway with rate limiting and origin validation, and the    *)
(* clipboard upload path.                                                  *)
(*                                                                         *)
(* Strings are sequences of one-character tokens.  "NUL" is U+0000, "SOH"  *)
(* is U+0001, "TAB" is U+0009 and "SP" is U+0020.  A filesystem path is a  *)
(* sequence of segments, each segment a string; <<>> is "/".               *)
(***************************************************************************)
EXTENDS Integers, Sequences, FiniteSets, TLC

VARIABLES
    rawPath,        \* resolveRepoPath: the raw path handed in by a client
    resolveResult   \* resolveRepoPath: <<>> before the call, <<outcome>> after it

pathVars == <<rawPath, resolveResult>>

VARIABLES
    fs,             \* the filesystem: absolute path -> node
    h,              \* request slot -> the handler's position and locals
    resp,           \* request slot -> the response sent for its request
    lastOp          \* the latest filesystem call made by a handler

fsVars == <<fs, h, resp, lastOp>>

VARIABLES
    secret,           \* BASIC_AUTH_PASSWORD, fixed when the process starts
    now,              \* the clock, in milliseconds
    authFailureByIP,  \* the Map of failure records, key -> record
    gw,               \* the request the gateway handled last and its outcome
    attempts,         \* history: key -> the wrong-password run and block so far
    inFlight          \* connection -> the request received on it and its answer

gwVars == <<secret, now, authFailureByIP, gw, attempts, inFlight>>

VARIABLES
    uploadName,       \* the name handed to validateUploadFilename
    verdict           \* <<>> before the call, <<what it returned>> after

nameVars == <<uploadName, verdict>>

VARIABLES
    conditional,      \* the headers and file stats handed to the cache responder
    notModified       \* <<>> before it decides, <<what it returned>> after

cacheVars == <<conditional, notModified>>

VARIABLES
    argv,             \* process.argv.slice(2) of the launcher
    env,              \* what the launcher finds: process.env, config file, tailscale
    launched          \* <<>> before main has run, <<what it did>> after

launchVars == <<argv, env, launched>>

vars == <<rawPath, resolveResult, fs, h, resp, lastOp,
          secret, now, authFailureByIP, gw, attempts, inFlight, uploadName, verdict,
          conditional, notModified, argv, env, launched>>

----------------------------------------------------------------------------
(* Bounds *)

MaxPathLen == 4

\* symbolic links followed while resolving one path (the kernel allows 40)
MaxSymlinkHops == 2

\* the clock moves in steps of CLOCK_STEP and of one millisecond
MaxClockSteps == 4
MaxMsTicks == 3

\* characters before the ending of a candidate file name, and of the name
\* of an upload
MaxStemLen == 3
MaxUploadStemLen == 2

\* pieces of an If-None-Match header value
MaxHeaderLen == 3

----------------------------------------------------------------------------
(* Strings *)

\* String.prototype.trim strips white space; of the characters used here
\* those are U+0020 and U+0009 (U+0000 and U+0001 are not white space).
WhiteSpaceChars == {"SP", "TAB"}

\* the class [\u0000-\u001f]
ControlChars == {"NUL", "SOH", "TAB"}

RECURSIVE TrimStart(_)
TrimStart(s) ==
    IF s # <<>> /\ Head(s) \in WhiteSpaceChars THEN TrimStart(Tail(s)) ELSE s

RECURSIVE TrimEnd(_)
TrimEnd(s) ==
    IF s # <<>> /\ s[Len(s)] \in WhiteSpaceChars
    THEN TrimEnd(SubSeq(s, 1, Len(s) - 1))
    ELSE s

Trim(s) == TrimEnd(TrimStart(s))

Includes(s, c) == \E i \in 1..Len(s) : s[i] = c

StartsWith(s, prefix) ==
    /\ Len(s) >= Len(prefix)
    /\ SubSeq(s, 1, Len(prefix)) = prefix

\* String.prototype.split("/"): the pieces between the separators, empty
\* pieces included.
RECURSIVE SplitFrom(_, _, _)
SplitFrom(s, i, piece) ==
    IF i > Len(s) THEN <<piece>>
    ELSE IF s[i] = "/" THEN <<piece>> \o SplitFrom(s, i + 1, <<>>)
    ELSE SplitFrom(s, i + 1, Append(piece, s[i]))

SplitSlash(s) == SplitFrom(s, 1, <<>>)

\* Array.prototype.join("/")
RECURSIVE JoinSlash(_)
JoinSlash(segs) ==
    IF segs = <<>> THEN <<>>
    ELSE IF Len(segs) = 1 THEN segs[1]
    ELSE segs[1] \o <<"/">> \o JoinSlash(Tail(segs))

\* all strings over an alphabet up to a length
RECURSIVE StringsUpTo(_, _)
StringsUpTo(alphabet, n) ==
    IF n = 0 THEN {<<>>}
    ELSE LET shorter == StringsUpTo(alphabet, n - 1)
         IN  shorter \cup {Append(s, c) : s \in {t \in shorter : Len(t) = n - 1}, c \in alphabet}

----------------------------------------------------------------------------
(* node:path (POSIX) *)

\* normalizeString: "." and empty segments vanish, ".." removes the segment
\* before it and is dropped at the filesystem root (the path is absolute).
RECURSIVE NormalizeSegments(_, _)
NormalizeSegments(segs, acc) ==
    IF segs = <<>> THEN acc
    ELSE LET seg == Head(segs)
         IN  IF seg = <<>> \/ seg = <<".">> THEN NormalizeSegments(Tail(segs), acc)
             ELSE IF seg = <<".", ".">>
                  THEN NormalizeSegments(Tail(segs),
                           IF acc = <<>> THEN acc ELSE SubSeq(acc, 1, Len(acc) - 1))
             ELSE NormalizeSegments(Tail(segs), Append(acc, seg))

\* path.isAbsolute
IsAbsolute(s) == s # <<>> /\ s[1] = "/"

\* path.resolve(base, s) for an absolute, normalized base
PathResolve(base, s) ==
    IF IsAbsolute(s) THEN NormalizeSegments(SplitSlash(s), <<>>)
    ELSE NormalizeSegments(SplitSlash(s), base)

RECURSIVE CommonPrefixLen(_, _)
CommonPrefixLen(a, b) ==
    IF a # <<>> /\ b # <<>> /\ Head(a) = Head(b)
    THEN 1 + CommonPrefixLen(Tail(a), Tail(b))
    ELSE 0

\* path.relative(from, to) for absolute, normalized paths, as a string:
\* one ".." per segment of `from` below the common prefix, then the rest
\* of `to`.
PathRelative(from, to) ==
    LET k == CommonPrefixLen(from, to)
        ups == [i \in 1..(Len(from) - k) |-> <<".", ".">>]
    IN  JoinSlash(ups \o SubSeq(to, k + 1, Len(to)))

----------------------------------------------------------------------------
(* Path sandbox resolver *)

REPO_ROOT == << <<"r">> >>

Ok(p) == [ok |-> TRUE, path |-> p]
Err(m) == [ok |-> FALSE, error |-> m]

\* a slip that compares the two paths as plain strings
isWithinRepoByStringPrefix(absPath) ==
    StartsWith(JoinSlash(absPath), JoinSlash(REPO_ROOT))

isWithinRepo(absPath) ==
    LET relative == PathRelative(REPO_ROOT, absPath)
    IN  \/ relative = <<>>
        \/ (~StartsWith(relative, <<".", ".">>) /\ ~IsAbsolute(relative))

\* the resolver without its U+0000 test
resolveRepoPathWithoutNullTest(relativePath) ==
    LET resolved == PathResolve(REPO_ROOT, Trim(relativePath))
    IN  IF ~isWithinRepo(resolved)
        THEN Err("Path escapes repository root")
        ELSE Ok(resolved)

resolveRepoPath(relativePath) ==
    LET input == Trim(relativePath)
    IN  IF Includes(input, "NUL") THEN Err("Path contains null byte")
        ELSE LET resolved == PathResolve(REPO_ROOT, input)
             IN  IF ~isWithinRepo(resolved)
                 THEN Err("Path escapes repository root")
                 ELSE Ok(resolved)

\* the path is the root itself or a lexical descendant of it
LexicallyInsideRoot(p) ==
    /\ Len(p) >= Len(REPO_ROOT)
    /\ SubSeq(p, 1, Len(REPO_ROOT)) = REPO_ROOT

\* where the (trimmed) raw path points once normalized against the root
NormalizedTarget(raw) == PathResolve(REPO_ROOT, Trim(raw))

----------------------------------------------------------------------------
(* Upload filename sanitizer and validator *)

ALLOWED_IMAGE_EXTENSIONS ==
    { <<".", "p", "n", "g">>, <<".", "j", "p", "g">>, <<".", "j", "p", "e", "g">>,
      <<".", "g", "i", "f">>, <<".", "w", "e", "b", "p">>, <<".", "s", "v", "g">>,
      <<".", "b", "m", "p">>, <<".", "h", "e", "i", "c">>, <<".", "h", "e", "i", "f">>,
      <<".", "a", "v", "i", "f">> }

UpperCaseChars == {"A", "E", "G", "N", "P", "X"}

LowerChar(c) ==
    CASE c = "A" -> "a" [] c = "E" -> "e" [] c = "G" -> "g"
      [] c = "N" -> "n" [] c = "P" -> "p" [] c = "X" -> "x"
      [] OTHER -> c

\* String.prototype.toLowerCase
ToLowerCase(s) == [i \in 1..Len(s) |-> LowerChar(s[i])]

\* the class [A-Za-z0-9._-], over the characters used in this module
FilenameChars ==
    { "a", "b", "c", "d", "e", "f", "g", "h", "i", "j", "k", "l", "m", "n", "o",
      "p", "r", "s", "t", "u", "v", "w", "x", "y", "0", "1", "7",
      ".", "_", "-" } \cup UpperCaseChars

\* index of the last character that is not "/", 0 if there is none
RECURSIVE LastNonSlash(_, _)
LastNonSlash(s, i) ==
    IF i = 0 THEN 0
    ELSE IF s[i] # "/" THEN i
    ELSE LastNonSlash(s, i - 1)

\* index of the first character of the last path component ending at `end`
RECURSIVE StartOfPart(_, _)
StartOfPart(s, i) ==
    IF i = 0 THEN 1
    ELSE IF s[i] = "/" THEN i + 1
    ELSE StartOfPart(s, i - 1)

\* path.basename: the last component, trailing separators ignored
PathBasename(s) ==
    LET end == LastNonSlash(s, Len(s))
    IN  IF end = 0 THEN <<>> ELSE SubSeq(s, StartOfPart(s, end), end)

RECURSIVE LastIndexOf(_, _, _)
LastIndexOf(s, c, i) ==
    IF i = 0 THEN 0
    ELSE IF s[i] = c THEN i
    ELSE LastIndexOf(s, c, i - 1)

\* path.extname: from the last "." of the last component; empty when there
\* is no ".", when the only "." starts the component, or for "..".
PathExtname(s) ==
    LET base == PathBasename(s)
        dot == LastIndexOf(base, ".", Len(base))
    IN  IF dot = 0 \/ dot = 1 \/ base = <<".", ".">> THEN <<>>
        ELSE SubSeq(base, dot, Len(base))

\* String.prototype.replace(/[\u0000-\u001f]/g, "")
RECURSIVE StripControl(_)
StripControl(s) ==
    IF s = <<>> THEN <<>>
    ELSE IF Head(s) \in ControlChars THEN StripControl(Tail(s))
    ELSE <<Head(s)>> \o StripControl(Tail(s))

\* `upload-${Date.now()}`; the digits stand for the clock reading
FallbackUploadName == <<"u", "p", "l", "o", "a", "d", "-", "1", "7">>

\* a sanitizer whose character class reaches one code point too far and
\* takes the space with the control characters
sanitizeUploadFilenameAndSpaces(originalName) ==
    LET stripped == SelectSeq(StripControl(PathBasename(originalName)),
                              LAMBDA c : c # "SP")
        cleaned == Trim(stripped)
    IN  IF cleaned = <<>> \/ cleaned = <<".">> \/ cleaned = <<".", ".">>
        THEN FallbackUploadName
        ELSE cleaned

sanitizeUploadFilename(originalName) ==
    LET stripped == StripControl(PathBasename(originalName))
        cleaned == Trim(stripped)
    IN  IF cleaned = <<>> \/ cleaned = <<".">> \/ cleaned = <<".", ".">>
        THEN FallbackUploadName
        ELSE cleaned

NoError == "null"

\* a validator that compares the extension without lower-casing it
validateUploadFilenameCaseSensitive(fileName) ==
    IF fileName = <<>> THEN "Filename is required"
    ELSE IF \E i \in 1..Len(fileName) : fileName[i] \in WhiteSpaceChars
         THEN "Filename cannot contain spaces"
    ELSE IF fileName = <<".">> \/ fileName = <<".", ".">> \/ StartsWith(fileName, <<".">>)
         THEN "Filename is invalid"
    ELSE IF ~(\A i \in 1..Len(fileName) : fileName[i] \in FilenameChars)
         THEN "Filename may only contain letters, numbers, dot, underscore, and dash"
    ELSE LET extension == PathExtname(fileName)
         IN  IF extension = <<>> \/ extension \notin ALLOWED_IMAGE_EXTENSIONS
             THEN "Filename must use an allowed image extension"
             ELSE NoError

validateUploadFilename(fileName) ==
    IF fileName = <<>> THEN "Filename is required"
    ELSE IF \E i \in 1..Len(fileName) : fileName[i] \in WhiteSpaceChars
         THEN "Filename cannot contain spaces"
    ELSE IF fileName = <<".">> \/ fileName = <<".", ".">> \/ StartsWith(fileName, <<".">>)
         THEN "Filename is invalid"
    ELSE IF ~(\A i \in 1..Len(fileName) : fileName[i] \in FilenameChars)
         THEN "Filename may only contain letters, numbers, dot, underscore, and dash"
    ELSE LET extension == ToLowerCase(PathExtname(fileName))
         IN  IF extension = <<>> \/ extension \notin ALLOWED_IMAGE_EXTENSIONS
             THEN "Filename must use an allowed image extension"
             ELSE NoError

\* resolveNamedImagePath: the outcome is an error, or the absolute path of
\* the sanitized name inside the base directory
resolveNamedImagePath(baseDirectoryPath, requestedName) ==
    LET safeName == sanitizeUploadFilename(requestedName)
        validationError == validateUploadFilename(safeName)
    IN  IF validationError # NoError THEN Err(validationError)
        ELSE LET absolutePath == PathResolve(baseDirectoryPath, safeName)
                 relativeToDirectory == PathRelative(baseDirectoryPath, absolutePath)
             IN  IF StartsWith(relativeToDirectory, <<".", ".">>) \/ IsAbsolute(relativeToDirectory)
                 THEN Err("Path escapes target directory")
                 ELSE Ok(absolutePath)

----------------------------------------------------------------------------
(* The filesystem the server runs on *)

CLIPBOARD_DIRECTORY_NAME == <<".", "c", "l", "i", "p", "b", "o", "a", "r", "d">>
CLIPBOARD_DIRECTORY_PATH == Append(REPO_ROOT, CLIPBOARD_DIRECTORY_NAME)
SCREENSHOTS_DIRECTORY_NAME ==
    <<".", "p", "l", "a", "y", "w", "r", "i", "g", "h", "t", "-", "m", "c", "p">>
SCREENSHOTS_DIRECTORY_PATH == Append(REPO_ROOT, SCREENSHOTS_DIRECTORY_NAME)

\* modification times in microseconds, so that mtimeMs has a fraction:
\* 7300.5 ms for what was stored before the server started, 9100.25 ms for
\* what the server writes, 12000 ms for what another program writes later
STORED_MTIME_US == 7300500
WRITTEN_MTIME_US == 9100250
TOUCHED_MTIME_US == 12000000

NoNode == [kind |-> "none", data |-> "", target |-> <<>>, mtimeUs |-> 0]
DirNode == [kind |-> "dir", data |-> "", target |-> <<>>, mtimeUs |-> STORED_MTIME_US]
FileNodeAt(d, mtimeUs) == [kind |-> "file", data |-> d, target |-> <<>>, mtimeUs |-> mtimeUs]
FileNode(d) == FileNodeAt(d, STORED_MTIME_US)
LinkNode(t) == [kind |-> "link", data |-> "", target |-> t, mtimeUs |-> STORED_MTIME_US]
\* a named pipe: an entry that is neither file, directory nor link
FifoNode == [kind |-> "fifo", data |-> "", target |-> <<>>, mtimeUs |-> STORED_MTIME_US]

\* fs.Stats of a node: size in bytes and mtimeMs, kept in microseconds
StatsOf(node) == [size |-> Len(node.data), mtimeUs |-> node.mtimeUs]

K_PNG == <<"k", ".", "p", "n", "g">>

OUTSIDE_DIR == << <<"o">> >>
OUTSIDE_FILE == <<<<"o">>, K_PNG>>
VISIBLE_FILE == Append(REPO_ROOT, <<"a">>)
VISIBLE_DIR == Append(REPO_ROOT, <<"s">>)
NESTED_FILE == Append(VISIBLE_DIR, <<"b">>)
HIDDEN_FILE == Append(REPO_ROOT, <<".", "e">>)
LINK_SLOT == Append(REPO_ROOT, <<"l">>)
DOT_SLOT == Append(REPO_ROOT, <<".", "d">>)
SCREENSHOT_FILE == Append(SCREENSHOTS_DIRECTORY_PATH, K_PNG)

\* the paths whose content other programs change while the server runs
ChangingPaths ==
    {LINK_SLOT, DOT_SLOT, SCREENSHOTS_DIRECTORY_PATH, SCREENSHOT_FILE, OUTSIDE_FILE}

FsPaths ==
    {<<>>, REPO_ROOT, VISIBLE_FILE, VISIBLE_DIR, NESTED_FILE, HIDDEN_FILE, OUTSIDE_DIR}
        \cup ChangingPaths

\* what another program may put at a changing path
NodeChoices(p) ==
    CASE p = LINK_SLOT ->
            {NoNode, FileNode("L"), FifoNode, LinkNode(OUTSIDE_FILE), LinkNode(OUTSIDE_DIR),
             LinkNode(VISIBLE_FILE), LinkNode(HIDDEN_FILE)}
      [] p = DOT_SLOT -> {NoNode, LinkNode(VISIBLE_FILE), LinkNode(VISIBLE_DIR)}
      [] p = SCREENSHOTS_DIRECTORY_PATH -> {NoNode, DirNode, LinkNode(OUTSIDE_DIR)}
      [] p = SCREENSHOT_FILE -> {NoNode, FileNode("SHOT")}
      [] p = OUTSIDE_FILE -> {NoNode, FileNode("SECRET")}

InitialFs ==
    [p \in FsPaths |->
        CASE p \in {<<>>, REPO_ROOT, VISIBLE_DIR, OUTSIDE_DIR, SCREENSHOTS_DIRECTORY_PATH} -> DirNode
          [] p = VISIBLE_FILE -> FileNode("A")
          [] p = NESTED_FILE -> FileNode("B")
          [] p = HIDDEN_FILE -> FileNode("ENV")
          [] p = SCREENSHOT_FILE -> FileNode("SHOT")
          [] p = OUTSIDE_FILE -> FileNode("SECRET")
          [] OTHER -> NoNode]

NodeAt(f, p) == IF p \in DOMAIN f THEN f[p] ELSE NoNode

ParentOf(p) == SubSeq(p, 1, Len(p) - 1)

FsFound(p) == [found |-> TRUE, path |-> p, code |-> ""]
FsError(c) == [found |-> FALSE, path |-> <<>>, code |-> c]

\* path resolution as the kernel does it: component by component from "/",
\* following every symbolic link met on the way
RECURSIVE Walk(_, _, _, _)
Walk(f, cur, rest, hops) ==
    IF rest = <<>> THEN FsFound(cur)
    ELSE LET next == Append(cur, Head(rest))
             node == NodeAt(f, next)
         IN  IF node.kind = "none" THEN FsError("ENOENT")
             ELSE IF node.kind = "link"
                  THEN IF hops = 0 THEN FsError("ELOOP")
                       ELSE Walk(f, <<>>, node.target \o Tail(rest), hops - 1)
             ELSE IF node.kind # "dir" /\ Tail(rest) # <<>> THEN FsError("ENOTDIR")
             ELSE Walk(f, next, Tail(rest), hops)

\* fs.realpath
fsRealpath(f, p) == Walk(f, <<>>, p, MaxSymlinkHops)

\* fs.stat: the node the path resolves to, symbolic links followed
fsStat(f, p) ==
    LET w == fsRealpath(f, p)
    IN  IF w.found THEN [ok |-> TRUE, node |-> f[w.path], code |-> ""]
        ELSE [ok |-> FALSE, node |-> NoNode, code |-> w.code]

\* fs.readdir(..., {withFileTypes: true}): the children of the directory the
\* path resolves to, each with its own type (a link is reported as a link)
fsReaddir(f, p) ==
    LET w == fsRealpath(f, p)
    IN  IF ~w.found THEN [ok |-> FALSE, entries |-> {}, code |-> w.code]
        ELSE IF f[w.path].kind # "dir" THEN [ok |-> FALSE, entries |-> {}, code |-> "ENOTDIR"]
        ELSE [ok |-> TRUE, code |-> "",
              entries |-> {[name |-> q[Len(q)], kind |-> f[q].kind] :
                              q \in {c \in DOMAIN f : /\ Len(c) = Len(w.path) + 1
                                                      /\ SubSeq(c, 1, Len(w.path)) = w.path
                                                      /\ f[c].kind # "none"}}]

\* where fs.unlink acts: the directory part is resolved through links, the
\* last component is the entry removed
UnlinkTarget(f, p) ==
    LET w == fsRealpath(f, ParentOf(p))
    IN  IF ~w.found THEN w
        ELSE IF f[w.path].kind # "dir" THEN FsError("ENOTDIR")
        ELSE LET t == Append(w.path, p[Len(p)])
             IN  IF NodeAt(f, t).kind = "none" THEN FsError("ENOENT")
                 ELSE IF f[t].kind = "dir" THEN FsError("EISDIR")
                 ELSE FsFound(t)

NoOp == [op |-> "none", path |-> <<>>, landed |-> FALSE, real |-> <<>>]
FsOp(o, p, w) == [op |-> o, path |-> p, landed |-> w.found, real |-> w.path]

\* another program rewrites one changing path; a directory that stops being
\* a directory loses its entries, and an entry needs a directory to be in
ChangeFs(f, p, node) ==
    [q \in DOMAIN f |->
        IF q = p THEN node
        ELSE IF Len(q) > Len(p) /\ SubSeq(q, 1, Len(p)) = p /\ node.kind # "dir" THEN NoNode
        ELSE f[q]]

CanChange(f, p, node) ==
    /\ p \in ChangingPaths
    /\ node \in NodeChoices(p)
    /\ node # f[p]
    /\ f[ParentOf(p)].kind = "dir"

----------------------------------------------------------------------------
(* Visibility filter *)

toRepoRelativePath(absPath) == PathRelative(REPO_ROOT, absPath)

isHiddenRepoRelativePath(repoRelativePath) ==
    IF repoRelativePath = <<>> THEN FALSE
    ELSE LET segments == SplitSlash(repoRelativePath)
         IN  \E i \in 1..Len(segments) : StartsWith(segments[i], <<".">>)

\* a hidden-path test that looks at the last segment only
isBlockedHiddenRepoRelativePathByName(repoRelativePath) ==
    /\ repoRelativePath # <<>>
    /\ StartsWith(SplitSlash(repoRelativePath)[Len(SplitSlash(repoRelativePath))], <<".">>)

isBlockedHiddenRepoRelativePath(repoRelativePath) ==
    isHiddenRepoRelativePath(repoRelativePath)

\* the standard output of a child process: missing, or its lines
NoStdout == [defined |-> FALSE, lines |-> {}]
Stdout(lines) == [defined |-> TRUE, lines |-> lines]

\* no run of `git check-ignore`
NotRun == [invoked |-> FALSE, failed |-> FALSE, stdout |-> NoStdout]

\* the runs of `git check-ignore -- paths`: exit 0 with the ignored paths
\* printed; a failure with no output (exit 1 when nothing is ignored, exit
\* 128, or git missing); a failure after part of the output (the buffer
\* limit exceeded)
OracleRuns(paths) ==
    { [invoked |-> TRUE, failed |-> FALSE, stdout |-> Stdout(printed)] :
          printed \in (SUBSET paths) \ {{}} }
    \cup
    { [invoked |-> TRUE, failed |-> TRUE, stdout |-> out] : out \in {NoStdout, Stdout({})} }
    \cup
    { [invoked |-> TRUE, failed |-> TRUE, stdout |-> Stdout(printed)] :
          printed \in (SUBSET paths) \ {{}} }

parseGitIgnoredStdout(stdout) ==
    IF ~stdout.defined \/ stdout.lines = {} THEN {}
    ELSE {Trim(line) : line \in stdout.lines} \ {<<>>}

\* the paths handed to git: the non-empty ones, once each
normalizedPaths(repoRelativePaths) == {q \in repoRelativePaths : q # <<>>}

\* the runs getGitIgnoredPathSet may see: none when there is no path to ask
\* about
RunsFor(repoRelativePaths) ==
    IF normalizedPaths(repoRelativePaths) = {} THEN {NotRun}
    ELSE OracleRuns(normalizedPaths(repoRelativePaths))

\* an oracle whose failure marks every path ignored
getGitIgnoredPathSetFailClosed(repoRelativePaths, run) ==
    IF normalizedPaths(repoRelativePaths) = {} THEN {}
    ELSE IF run.failed THEN normalizedPaths(repoRelativePaths)
    ELSE parseGitIgnoredStdout(run.stdout)

\* getGitIgnoredPathSet, given the run of git: the output is parsed whether
\* the run succeeded or failed
getGitIgnoredPathSet(repoRelativePaths, run) ==
    IF normalizedPaths(repoRelativePaths) = {} THEN {}
    ELSE parseGitIgnoredStdout(run.stdout)

\* assertPathAccessible asks the oracle only for a path that passed the
\* hidden-path test, is not the root and may not be an ignored one
AsksOracle(absPath, allowHidden, allowGitIgnored) ==
    /\ ~(~allowHidden /\ isBlockedHiddenRepoRelativePath(toRepoRelativePath(absPath)))
    /\ ~allowGitIgnored
    /\ toRepoRelativePath(absPath) # <<>>

\* assertPathAccessible, given what the ignore oracle answered: the error
\* thrown, or NoError
assertPathAccessible(absPath, allowHidden, allowGitIgnored, ignoredPathSet) ==
    LET repoRelativePath == toRepoRelativePath(absPath)
    IN  IF ~allowHidden /\ isBlockedHiddenRepoRelativePath(repoRelativePath)
        THEN "Hidden paths are not accessible"
        ELSE IF ~allowGitIgnored /\ repoRelativePath # <<>>
                  /\ repoRelativePath \in ignoredPathSet
             THEN "Gitignored paths are not accessible"
        ELSE NoError

----------------------------------------------------------------------------
(* Conditional cache responder *)

IMAGE_CACHE_CONTROL == "private, max-age=60, stale-while-revalidate=300"
METADATA_CACHE_CONTROL == "private, max-age=10, stale-while-revalidate=30"

\* a header value is a sequence of pieces of text; "SP" is a space and ","
\* a comma, every other piece is text without spaces and commas
PieceText(piece) == IF piece = "SP" THEN " " ELSE piece

RECURSIVE JoinText(_)
JoinText(pieces) ==
    IF pieces = <<>> THEN "" ELSE PieceText(Head(pieces)) \o JoinText(Tail(pieces))

\* String.prototype.split(","): the runs of pieces between the commas
RECURSIVE SplitCommaFrom(_, _, _)
SplitCommaFrom(s, i, run) ==
    IF i > Len(s) THEN <<run>>
    ELSE IF s[i] = "," THEN <<run>> \o SplitCommaFrom(s, i + 1, <<>>)
    ELSE SplitCommaFrom(s, i + 1, Append(run, s[i]))

SplitComma(s) == SplitCommaFrom(s, 1, <<>>)

\* a date as text: an HTTP date or an ISO date of the given time, or text
\* that is no date
HttpDate(seconds) == [form |-> "http", ms |-> seconds * 1000]
IsoDate(ms) == [form |-> "iso", ms |-> ms]
NoDate == [form |-> "garbage", ms |-> 0]

\* Date.parse: the time in milliseconds, or NaN
NaN == [valid |-> FALSE, ms |-> 0]
DateParse(text) == IF text.form = "garbage" THEN NaN ELSE [valid |-> TRUE, ms |-> text.ms]

\* new Date(mtimeMs).toUTCString(): the time value loses its fraction, the
\* text its milliseconds
toUTCString(mtimeUs) == HttpDate((mtimeUs \div 1000) \div 1000)

\* `W/"${stats.size}-${Math.floor(stats.mtimeMs)}"`
buildWeakETag(stats) ==
    "W/\"" \o ToString(stats.size) \o "-" \o ToString(stats.mtimeUs \div 1000) \o "\""

\* a responder for which an If-None-Match header settles the answer
shouldRespondNotModifiedByTagFirst(ifNoneMatchHeader, ifModifiedSinceHeader, etag, mtimeUs) ==
    IF ifNoneMatchHeader # <<>> /\ ifNoneMatchHeader[1] # <<>>
    THEN LET candidates == {JoinText(Trim(SplitComma(ifNoneMatchHeader[1])[i])) :
                               i \in 1..Len(SplitComma(ifNoneMatchHeader[1]))}
         IN  "*" \in candidates \/ etag \in candidates
    ELSE /\ ifModifiedSinceHeader # <<>>
         /\ DateParse(ifModifiedSinceHeader[1]).valid
         /\ DateParse(ifModifiedSinceHeader[1]).ms >= (mtimeUs \div 1000000) * 1000

\* shouldRespondNotModified(req, etag, lastModifiedMillis), the two request
\* headers given as <<>> (missing) or <<value>>
shouldRespondNotModified(ifNoneMatchHeader, ifModifiedSinceHeader, etag, mtimeUs) ==
    LET tagMatches ==
            /\ ifNoneMatchHeader # <<>>
            /\ ifNoneMatchHeader[1] # <<>>
            /\ LET candidates == {JoinText(Trim(SplitComma(ifNoneMatchHeader[1])[i])) :
                                      i \in 1..Len(SplitComma(ifNoneMatchHeader[1]))}
               IN  "*" \in candidates \/ etag \in candidates
        dateMatches ==
            /\ ifModifiedSinceHeader # <<>>
            /\ LET since == DateParse(ifModifiedSinceHeader[1])
                   lastModifiedSeconds == (mtimeUs \div 1000000) * 1000
               IN  since.valid /\ since.ms >= lastModifiedSeconds
    IN  tagMatches \/ dateMatches

\* the response with no header set and nothing sent
NoResponse ==
    [status |-> 0, error |-> "", data |-> "", entries |-> {},
     skippedSymlinks |-> 0, skippedHidden |-> 0, skippedIgnored |-> 0,
     cacheControl |-> "", etag |-> "", lastModified |-> <<>>,
     contentType |-> "", contentLength |-> ""]

\* a responder that sends its 304 before it has set the validators
setImageCacheHeadersAfterTest(req, res, stats) ==
    LET etag == buildWeakETag(stats)
        headed == [res EXCEPT !.cacheControl = IMAGE_CACHE_CONTROL,
                              !.etag = etag,
                              !.lastModified = <<toUTCString(stats.mtimeUs)>>]
    IN  IF shouldRespondNotModified(req.ifNoneMatch, req.ifModifiedSince, etag, stats.mtimeUs)
        THEN [notModified |-> TRUE, res |-> [res EXCEPT !.status = 304]]
        ELSE [notModified |-> FALSE, res |-> headed]

\* setImageCacheHeaders: the three headers are set, then the 304 is sent
\* when the request's validators match; what it returns and the response
setImageCacheHeaders(req, res, stats) ==
    LET etag == buildWeakETag(stats)
        headed == [res EXCEPT !.cacheControl = IMAGE_CACHE_CONTROL,
                              !.etag = etag,
                              !.lastModified = <<toUTCString(stats.mtimeUs)>>]
    IN  IF shouldRespondNotModified(req.ifNoneMatch, req.ifModifiedSince, etag, stats.mtimeUs)
        THEN [notModified |-> TRUE, res |-> [headed EXCEPT !.status = 304]]
        ELSE [notModified |-> FALSE, res |-> headed]

\* the types mime-types knows for the extensions used here
IMAGE_MIME_TYPES ==
    { "image/png", "image/jpeg", "image/gif", "image/webp", "image/svg+xml",
      "image/bmp", "image/heic", "image/heif", "image/avif" }

\* a lookup that knows no image type
mimeLookupWithoutImages(absPath) == ""

\* lookup of mime-types: the type of the lower-cased extension of the
\* path, "" (false) when it has none or an unknown one
mimeLookup(absPath) ==
    LET extension == ToLowerCase(PathExtname(absPath[Len(absPath)]))
    IN  CASE extension = <<".", "p", "n", "g">> -> "image/png"
          [] extension \in {<<".", "j", "p", "g">>, <<".", "j", "p", "e", "g">>} -> "image/jpeg"
          [] extension = <<".", "g", "i", "f">> -> "image/gif"
          [] extension = <<".", "w", "e", "b", "p">> -> "image/webp"
          [] extension = <<".", "s", "v", "g">> -> "image/svg+xml"
          [] extension = <<".", "b", "m", "p">> -> "image/bmp"
          [] extension = <<".", "h", "e", "i", "c">> -> "image/heic"
          [] extension = <<".", "h", "e", "i", "f">> -> "image/heif"
          [] extension = <<".", "a", "v", "i", "f">> -> "image/avif"
          [] extension = <<".", "t", "x", "t">> -> "text/plain"
          [] extension = <<".", "e", "x", "e">> -> "application/x-msdos-program"
          [] OTHER -> ""

\* mimeLookup(absPath) || "application/octet-stream"
mimeTypeOf(absPath) ==
    IF mimeLookup(absPath) = "" THEN "application/octet-stream" ELSE mimeLookup(absPath)

----------------------------------------------------------------------------
(* Authentication and abuse gateway *)

AUTH_WINDOW_MS == 600000
AUTH_MAX_ATTEMPTS == 20
AUTH_BLOCK_MS == 900000

\* the larger of the two steps the clock takes: half a window less one
\* millisecond, so that both sides of each deadline are met
CLOCK_STEP == (AUTH_WINDOW_MS \div 2) - 1

\* a header is <<>> when absent and <<value>> when present
Absent == <<>>
Present(v) == <<v>>

\* the value of an Origin or Referer header: a URL, or text `new URL`
\* rejects
UrlText(scheme, host, port) ==
    [parses |-> TRUE, scheme |-> scheme, host |-> host, port |-> port]
GarbageText == [parses |-> FALSE, scheme |-> "", host |-> <<>>, port |-> ""]

\* new URL(text): the host is lower-cased and the scheme's own port is
\* dropped
ParseUrl(text) ==
    [protocol |-> text.scheme \o ":",
     hostname |-> ToLowerCase(text.host),
     port |-> IF \/ (text.scheme = "https" /\ text.port = "443")
                 \/ (text.scheme = "http" /\ text.port = "80")
              THEN "" ELSE text.port]

normalizeAuthority(authorityUrl) ==
    LET protocolPort == IF authorityUrl.protocol = "https:" THEN "443" ELSE "80"
        port == IF authorityUrl.port # "" THEN authorityUrl.port ELSE protocolPort
    IN  <<ToLowerCase(authorityUrl.hostname), port>>

\* normalizeRequestAuthority: <<>> for null, <<authority>> otherwise
normalizeRequestAuthority(req) ==
    LET hostHeader == IF req.xForwardedHost # Absent THEN req.xForwardedHost
                      ELSE req.host
    IN  IF hostHeader = Absent THEN <<>>
        ELSE LET protocolHeader == IF req.xForwardedProto # Absent
                                   THEN req.xForwardedProto[1] ELSE "http"
                 protocol == IF protocolHeader = "https" THEN "https" ELSE "http"
             IN  IF ~hostHeader[1].parses THEN <<>>
                 ELSE <<normalizeAuthority(ParseUrl(
                            UrlText(protocol, hostHeader[1].host, hostHeader[1].port)))>>

\* a same-origin test that lets a request without Origin and Referer pass
isSameOriginMutationOrHeaderless(req) ==
    LET requestAuthority == normalizeRequestAuthority(req)
    IN  IF requestAuthority = <<>> THEN FALSE
        ELSE IF req.origin # Absent
        THEN /\ req.origin[1].parses
             /\ normalizeAuthority(ParseUrl(req.origin[1])) = requestAuthority[1]
        ELSE IF req.referer # Absent
        THEN /\ req.referer[1].parses
             /\ normalizeAuthority(ParseUrl(req.referer[1])) = requestAuthority[1]
        ELSE TRUE

isSameOriginMutation(req) ==
    LET requestAuthority == normalizeRequestAuthority(req)
    IN  IF requestAuthority = <<>> THEN FALSE
        ELSE IF req.origin # Absent
        THEN /\ req.origin[1].parses
             /\ normalizeAuthority(ParseUrl(req.origin[1])) = requestAuthority[1]
        ELSE IF req.referer # Absent
        THEN /\ req.referer[1].parses
             /\ normalizeAuthority(ParseUrl(req.referer[1])) = requestAuthority[1]
        ELSE FALSE

\* the value of an Authorization header: the scheme word and what the
\* base64 text after it decodes to (Buffer.from never throws)
AuthText(scheme, decoded) == [scheme |-> scheme, decoded |-> decoded]

RECURSIVE IndexOf(_, _, _)
IndexOf(s, c, i) ==
    IF i > Len(s) THEN 0
    ELSE IF s[i] = c THEN i
    ELSE IndexOf(s, c, i + 1)

\* parseBasicAuthPassword: <<>> for null, <<password>> otherwise
parseBasicAuthPassword(req) ==
    IF req.authorization = Absent THEN <<>>
    ELSE IF req.authorization[1].scheme # "Basic" THEN <<>>
    ELSE LET decoded == req.authorization[1].decoded
             separatorIndex == IndexOf(decoded, ":", 1)
         IN  IF decoded = <<>> \/ separatorIndex = 0 THEN <<>>
             ELSE <<SubSeq(decoded, separatorIndex + 1, Len(decoded))>>

\* a comparison that stops at the length test
constantTimeLengthMatch(actualPassword, expectedPassword) ==
    Len(actualPassword) = Len(expectedPassword)

constantTimePasswordMatch(actualPassword, expectedPassword) ==
    IF Len(actualPassword) # Len(expectedPassword) THEN FALSE
    ELSE \A i \in 1..Len(actualPassword) : actualPassword[i] = expectedPassword[i]

\* String.prototype.split(",")[0]
FirstCommaPiece(s) ==
    LET comma == IndexOf(s, ",", 1)
    IN  IF comma = 0 THEN s ELSE SubSeq(s, 1, comma - 1)

\* a key that is the whole X-Forwarded-For header
clientIPAddressWholeHeader(req) ==
    IF req.xForwardedFor # Absent /\ req.xForwardedFor[1] # <<>>
    THEN req.xForwardedFor[1]
    ELSE IF req.remoteAddress # <<>> THEN req.remoteAddress
    ELSE <<"u", "n", "k", "n", "o", "w", "n">>

clientIPAddress(req) ==
    LET first == IF req.xForwardedFor = Absent \/ req.xForwardedFor[1] = <<>>
                 THEN <<>>
                 ELSE Trim(FirstCommaPiece(req.xForwardedFor[1]))
    IN  IF first # <<>> THEN first
        ELSE IF req.remoteAddress # <<>> THEN req.remoteAddress
        ELSE <<"u", "n", "k", "n", "o", "w", "n">>

\* Math.ceil(ms / 1000)
CeilSeconds(ms) ==
    IF ms >= 0 THEN (ms + 999) \div 1000 ELSE -((-ms) \div 1000)

HasRecord(map, ip) == ip \in DOMAIN map

\* Map.prototype.set
MapSet(map, ip, record) ==
    [k \in DOMAIN map \cup {ip} |-> IF k = ip THEN record ELSE map[k]]

\* a delete that leaves the entry in the Map
MapDeleteNothing(map, ip) == map

\* Map.prototype.delete
MapDelete(map, ip) == [k \in DOMAIN map \ {ip} |-> map[k]]

\* a recordAuthFailure that blocks one failure late
recordAuthFailureOffByOne(map, ip, clock) ==
    IF ~HasRecord(map, ip) \/ clock - map[ip].windowStartAt >= AUTH_WINDOW_MS
    THEN [map |-> MapSet(map, ip, [windowStartAt |-> clock, failures |-> 1,
                                   blockedUntil |-> 0]),
          blockedUntil |-> 0]
    ELSE LET failures == map[ip].failures + 1
         IN  IF failures > AUTH_MAX_ATTEMPTS
             THEN [map |-> MapSet(map, ip, [windowStartAt |-> clock, failures |-> 0,
                                            blockedUntil |-> clock + AUTH_BLOCK_MS]),
                   blockedUntil |-> clock + AUTH_BLOCK_MS]
             ELSE [map |-> MapSet(map, ip, [map[ip] EXCEPT !.failures = failures]),
                   blockedUntil |-> 0]

\* a recordAuthFailure that sets the block without resetting the count
recordAuthFailureKeepingCount(map, ip, clock) ==
    IF ~HasRecord(map, ip) \/ clock - map[ip].windowStartAt >= AUTH_WINDOW_MS
    THEN [map |-> MapSet(map, ip, [windowStartAt |-> clock, failures |-> 1,
                                   blockedUntil |-> 0]),
          blockedUntil |-> 0]
    ELSE LET failures == map[ip].failures + 1
         IN  IF failures >= AUTH_MAX_ATTEMPTS
             THEN [map |-> MapSet(map, ip, [windowStartAt |-> clock, failures |-> failures,
                                            blockedUntil |-> clock + AUTH_BLOCK_MS]),
                   blockedUntil |-> clock + AUTH_BLOCK_MS]
             ELSE [map |-> MapSet(map, ip, [map[ip] EXCEPT !.failures = failures]),
                   blockedUntil |-> 0]

\* a recordAuthFailure whose window starts again at every failure
recordAuthFailureSliding(map, ip, clock) ==
    IF ~HasRecord(map, ip) \/ clock - map[ip].windowStartAt >= AUTH_WINDOW_MS
    THEN [map |-> MapSet(map, ip, [windowStartAt |-> clock, failures |-> 1,
                                   blockedUntil |-> 0]),
          blockedUntil |-> 0]
    ELSE LET failures == map[ip].failures + 1
         IN  IF failures >= AUTH_MAX_ATTEMPTS
             THEN [map |-> MapSet(map, ip, [windowStartAt |-> clock, failures |-> 0,
                                            blockedUntil |-> clock + AUTH_BLOCK_MS]),
                   blockedUntil |-> clock + AUTH_BLOCK_MS]
             ELSE [map |-> MapSet(map, ip, [map[ip] EXCEPT !.failures = failures,
                                                           !.windowStartAt = clock]),
                   blockedUntil |-> 0]

\* recordAuthFailure with Date.now() = clock: the Map afterwards and the
\* blockedUntil it returns (0 when it returns {})
recordAuthFailure(map, ip, clock) ==
    IF ~HasRecord(map, ip) \/ clock - map[ip].windowStartAt >= AUTH_WINDOW_MS
    THEN [map |-> MapSet(map, ip, [windowStartAt |-> clock, failures |-> 1,
                                   blockedUntil |-> 0]),
          blockedUntil |-> 0]
    ELSE LET failures == map[ip].failures + 1
         IN  IF failures >= AUTH_MAX_ATTEMPTS
             THEN [map |-> MapSet(map, ip, [windowStartAt |-> clock, failures |-> 0,
                                            blockedUntil |-> clock + AUTH_BLOCK_MS]),
                   blockedUntil |-> clock + AUTH_BLOCK_MS]
             ELSE [map |-> MapSet(map, ip, [map[ip] EXCEPT !.failures = failures]),
                   blockedUntil |-> 0]

MutatingMethods == {"POST", "PUT", "PATCH", "DELETE"}

NoOutcome ==
    [handled |-> FALSE, req |-> <<>>, status |-> 0, next |-> FALSE, retryAfter |-> 0,
     challenge |-> FALSE, blockedOnArrival |-> FALSE, blockingFailure |-> FALSE,
     afterBlock |-> FALSE]

\* the run of wrong-password attempts of a key: how many since the run
\* began, when it began, and when the key was blocked (-1: never)
NoAttempts == [wrong |-> 0, first |-> 0, blockedAt |-> -1]

AttemptsOf(ip) == IF ip \in DOMAIN attempts THEN attempts[ip] ELSE NoAttempts

\* the request carries Basic credentials user:password whose password is
\* the configured secret
CarriesSecret(req) ==
    /\ req.authorization # Absent
    /\ req.authorization[1].scheme = "Basic"
    /\ \E i \in 1..Len(req.authorization[1].decoded) :
          /\ req.authorization[1].decoded[i] = ":"
          /\ \A j \in 1..(i - 1) : req.authorization[1].decoded[j] # ":"
          /\ SubSeq(req.authorization[1].decoded, i + 1,
                    Len(req.authorization[1].decoded)) = secret

\* the history after a request of the key at the given clock readings
AttemptsAfter(old, arrival, recorded, blockedOnArrival, correct) ==
    IF blockedOnArrival THEN old
    ELSE IF correct THEN NoAttempts
    ELSE LET run == IF old.wrong = 0 \/ recorded - old.first >= AUTH_WINDOW_MS
                    THEN [wrong |-> 1, first |-> recorded]
                    ELSE [wrong |-> old.wrong + 1, first |-> old.first]
         IN  IF run.wrong = AUTH_MAX_ATTEMPTS
             THEN [wrong |-> 0, first |-> 0, blockedAt |-> recorded]
             ELSE [wrong |-> run.wrong, first |-> run.first, blockedAt |-> -1]

\* a block that still holds at the instant it ends
isBlockedInclusive(map, ip, clock) ==
    /\ HasRecord(map, ip)
    /\ map[ip].blockedUntil # 0
    /\ map[ip].blockedUntil >= clock

\* existing?.blockedUntil && existing.blockedUntil > now
isBlocked(map, ip, clock) ==
    /\ HasRecord(map, ip)
    /\ map[ip].blockedUntil # 0
    /\ map[ip].blockedUntil > clock

\* an accepted password whose record is cleared only after the origin check
\* has passed
acceptPasswordOriginFirst(map, ip, req) ==
    LET refused == req.method \in MutatingMethods /\ ~isSameOriginMutation(req)
    IN  [map |-> IF refused THEN map ELSE MapDelete(map, ip), refused |-> refused]

\* the branch of the middleware for a matching password: the record of the
\* key is deleted, then a mutating request is tested for its origin
acceptPassword(map, ip, req) ==
    [map |-> MapDelete(map, ip),
     refused |-> req.method \in MutatingMethods /\ ~isSameOriginMutation(req)]

\* a gateway that is registered whatever the password
gatewayRegisteredAlways(password) == TRUE

\* if (BASIC_AUTH_PASSWORD.length > 0) app.use(...): the middleware is
\* registered only when a password is configured
gatewayRegistered(password) == Len(password) > 0

\* the gateway middleware, which runs without awaiting anything; d1 is the
\* time between its Date.now() and the one of recordAuthFailure, d2 the time
\* until the one that computes Retry-After
Middleware(req, d1, d2) ==
    LET ip == clientIPAddress(req)
        blocked == isBlocked(authFailureByIP, ip, now)
        suppliedPassword == parseBasicAuthPassword(req)
        accepted == /\ suppliedPassword # <<>>
                    /\ constantTimePasswordMatch(suppliedPassword[1], secret)
        failure == recordAuthFailure(authFailureByIP, ip, now + d1)
        old == AttemptsOf(ip)
        blockedOnArrival == old.blockedAt # -1 /\ now < old.blockedAt + AUTH_BLOCK_MS
        after == AttemptsAfter(old, now, now + d1, blockedOnArrival, CarriesSecret(req))
        seen == [NoOutcome EXCEPT !.handled = TRUE, !.req = req,
                                  !.blockedOnArrival = blockedOnArrival,
                                  !.afterBlock = old.blockedAt # -1,
                                  !.blockingFailure = (~blockedOnArrival /\ after.blockedAt # -1)]
    IN  IF ~gatewayRegistered(secret)
        THEN /\ d1 = 0 /\ d2 = 0
             /\ gw' = [NoOutcome EXCEPT !.handled = TRUE, !.req = req, !.next = TRUE]
             /\ UNCHANGED <<now, authFailureByIP, attempts>>
        ELSE /\ attempts' = MapSet(attempts, ip, after)
             /\ IF blocked
                THEN /\ d1 = 0 /\ d2 = 0
                     /\ gw' = [seen EXCEPT !.status = 429,
                                  !.retryAfter = CeilSeconds(authFailureByIP[ip].blockedUntil - now)]
                     /\ UNCHANGED <<now, authFailureByIP>>
                ELSE IF accepted
                THEN /\ d1 = 0 /\ d2 = 0
                     /\ authFailureByIP' = acceptPassword(authFailureByIP, ip, req).map
                     /\ IF acceptPassword(authFailureByIP, ip, req).refused
                        THEN gw' = [seen EXCEPT !.status = 403]
                        ELSE gw' = [seen EXCEPT !.next = TRUE]
                     /\ UNCHANGED now
                ELSE /\ authFailureByIP' = failure.map
                     /\ now' = now + d1 + d2
                     /\ IF failure.blockedUntil # 0
                        THEN gw' = [seen EXCEPT !.status = 429,
                                       !.retryAfter = CeilSeconds(failure.blockedUntil - now')]
                        ELSE /\ d2 = 0
                             /\ gw' = [seen EXCEPT !.status = 401, !.challenge = TRUE]

\* time the middleware may take, within the bound on millisecond ticks
Delays == {d \in {0, 1} : (now % CLOCK_STEP) + d <= MaxMsTicks}

CONFIGURED_SECRET == <<"p", "w">>

BasicRequest ==
    [method |-> "GET", authorization |-> Absent, xForwardedFor |-> Absent,
     remoteAddress |-> <<"1">>, origin |-> Absent, referer |-> Absent,
     host |-> Absent, xForwardedHost |-> Absent, xForwardedProto |-> Absent]

AuthorizationValues ==
    { Absent,
      Present(AuthText("Bearer", <<"u", ":", "p", "w">>)),
      Present(AuthText("Basic", <<>>)),
      Present(AuthText("Basic", <<"p", "w">>)),
      Present(AuthText("Basic", <<"u", ":", "p", "w">>)),
      Present(AuthText("Basic", <<":", "p", "w">>)),
      Present(AuthText("Basic", <<"u", ":", "p", "x">>)),
      Present(AuthText("Basic", <<"u", ":", "p", ":", "w">>)) }

RIGHT_CREDENTIALS == Present(AuthText("Basic", <<"u", ":", "p", "w">>))
WRONG_CREDENTIALS == Present(AuthText("Basic", <<"u", ":", "p", "x">>))

\* X-Forwarded-For of a request of the first client behind a proxy chain,
\* and of a second client
FORWARDED_FIRST == Present(<<"SP", "1", "SP", ",", "2">>)
FORWARDED_SECOND == Present(<<"2">>)

APP_HOST == <<"a", "p", "p">>
APP_HOST_UPPER == <<"A", "P", "P">>
OTHER_HOST == <<"e", "x">>

HostText(host, port) == UrlText("", host, port)

\* the headers of a same-origin request, a cross-origin one, and one that
\* names no origin
OriginProfiles ==
    { [origin |-> Present(UrlText("https", APP_HOST, "")), referer |-> Absent,
       host |-> Present(HostText(APP_HOST, "")), xForwardedProto |-> Present("https")],
      [origin |-> Present(UrlText("https", OTHER_HOST, "")), referer |-> Absent,
       host |-> Present(HostText(APP_HOST, "")), xForwardedProto |-> Present("https")],
      [origin |-> Absent, referer |-> Absent,
       host |-> Present(HostText(APP_HOST, "")), xForwardedProto |-> Present("https")] }

\* the requests of the clients of the rate limiter: every kind of
\* credentials from the first client, a wrong password through a proxy
\* chain, the right password from a second client, and deletions with the
\* right password
ClientRequests ==
    { [BasicRequest EXCEPT !.authorization = a] : a \in AuthorizationValues }
    \cup
    { [BasicRequest EXCEPT !.authorization = WRONG_CREDENTIALS,
                           !.xForwardedFor = FORWARDED_FIRST],
      [BasicRequest EXCEPT !.authorization = RIGHT_CREDENTIALS,
                           !.xForwardedFor = FORWARDED_SECOND] }
    \cup
    { [BasicRequest EXCEPT !.method = "DELETE",
                           !.authorization = RIGHT_CREDENTIALS,
                           !.origin = o.origin, !.referer = o.referer, !.host = o.host,
                           !.xForwardedProto = o.xForwardedProto] : o \in OriginProfiles }

OriginValues ==
    { Absent, Present(GarbageText),
      Present(UrlText("https", APP_HOST, "")),
      Present(UrlText("https", APP_HOST_UPPER, "443")),
      Present(UrlText("http", APP_HOST, "")),
      Present(UrlText("https", APP_HOST, "8080")),
      Present(UrlText("https", OTHER_HOST, "")) }

RefererValues ==
    { Absent, Present(GarbageText),
      Present(UrlText("https", APP_HOST, "")),
      Present(UrlText("https", OTHER_HOST, "")) }

\* Origin with Referer: every Referer when there is no Origin, and none or
\* the application's own beside an Origin
NamedOrigins ==
    { pair \in OriginValues \X RefererValues :
          \/ pair[1] = Absent
          \/ pair[2] \in {Absent, Present(UrlText("https", APP_HOST, ""))} }

\* Host with X-Forwarded-Host
OwnHosts ==
    { <<Absent, Absent>>,
      <<Present(GarbageText), Absent>>,
      <<Present(HostText(APP_HOST, "")), Absent>>,
      <<Present(HostText(APP_HOST, "8080")), Absent>>,
      <<Present(HostText(OTHER_HOST, "")), Present(HostText(APP_HOST, ""))>>,
      <<Present(HostText(APP_HOST, "")), Present(HostText(OTHER_HOST, ""))>> }

ForwardedProtoValues == { Absent, Present("https") }

Methods == {"GET"} \cup MutatingMethods

\* the requests of a browser: posts with the right credentials and every
\* combination of origin headers, the other methods with the three
\* profiles, and a wrong password
BrowserRequests ==
    { [BasicRequest EXCEPT !.method = "POST", !.authorization = RIGHT_CREDENTIALS,
                           !.origin = named[1], !.referer = named[2],
                           !.host = own[1], !.xForwardedHost = own[2],
                           !.xForwardedProto = xp] :
          named \in NamedOrigins, own \in OwnHosts, xp \in ForwardedProtoValues }
    \cup
    { [BasicRequest EXCEPT !.method = m, !.authorization = RIGHT_CREDENTIALS,
                           !.origin = o.origin, !.referer = o.referer, !.host = o.host,
                           !.xForwardedProto = o.xForwardedProto] :
          m \in Methods, o \in OriginProfiles }
    \cup
    { [BasicRequest EXCEPT !.authorization = WRONG_CREDENTIALS] }

\* a client of the rate limiter sends a request
ClientRequest ==
    /\ \E req \in ClientRequests : \E d1 \in Delays, d2 \in Delays : Middleware(req, d1, d2)
    /\ UNCHANGED <<secret, inFlight>>

\* a browser sends a request
BrowserRequest ==
    /\ \E req \in BrowserRequests : Middleware(req, 0, 0)
    /\ UNCHANGED <<secret, inFlight>>

\* a millisecond passes
TickMs ==
    /\ (now % CLOCK_STEP) < MaxMsTicks
    /\ now' = now + 1
    /\ UNCHANGED <<secret, authFailureByIP, gw, attempts, inFlight>>

\* a long time passes
TickStep ==
    /\ now \div CLOCK_STEP < MaxClockSteps
    /\ now' = now + CLOCK_STEP
    /\ UNCHANGED <<secret, authFailureByIP, gw, attempts, inFlight>>

\* the gateway before its first request, with the given secret
GwStarted(password) ==
    /\ secret = password
    /\ now = 0
    /\ authFailureByIP = <<>>
    /\ gw = NoOutcome
    /\ attempts = <<>>
    /\ inFlight = <<>>

GwQuiet == GwStarted(CONFIGURED_SECRET)

----------------------------------------------------------------------------
(* Launcher (launcher.ts): argument parsing and the server's environment *)

FLAG_PREFIX == <<"-", "-">>
FLAG_PORT == <<"-", "-", "p", "o", "r", "t">>
FLAG_NO_SERVE == <<"-", "-", "n", "o", "-", "s", "e", "r", "v", "e">>
FLAG_FUNNEL == <<"-", "-", "f", "u", "n", "n", "e", "l">>
FLAG_PASSWORD == <<"-", "-", "p", "a", "s", "s", "w", "o", "r", "d">>
FLAG_SERVE == <<"-", "-", "s", "e", "r", "v", "e">>

DEFAULT_PORT == 18080
MAX_PORT == 65535

DigitChars == <<"0", "1", "2", "3", "4", "5", "6", "7", "8", "9">>

IsDigit(c) == \E d \in 1..Len(DigitChars) : DigitChars[d] = c

DigitValue(c) == (CHOOSE d \in 1..Len(DigitChars) : DigitChars[d] = c) - 1

\* Number.parseInt(text, 10) of a run of digits
RECURSIVE ParseInt(_)
ParseInt(text) ==
    IF text = <<>> THEN 0
    ELSE 10 * ParseInt(SubSeq(text, 1, Len(text) - 1)) + DigitValue(text[Len(text)])

\* parsePort: <<>> when it fails, <<port>> otherwise
parsePort(rawPort) ==
    IF rawPort = <<>> \/ \E i \in 1..Len(rawPort) : ~IsDigit(rawPort[i]) THEN <<>>
    ELSE IF ParseInt(rawPort) < 1 \/ ParseInt(rawPort) > MAX_PORT THEN <<>>
    ELSE <<ParseInt(rawPort)>>

\* the locals of parseArgs; exit is the code of process.exit, -1 while the
\* process runs
ArgsAtStart ==
    [exit |-> -1, port |-> DEFAULT_PORT, serveEnabled |-> TRUE, serveModeSet |-> FALSE,
     funnelEnabled |-> FALSE, passwordEnabled |-> FALSE, workspacePassword |-> <<>>]

\* fail(message): process.exit(1)
Failed(args) == [args EXCEPT !.exit = 1]

\* the for loop of parseArgs over argv from index i on
RECURSIVE ParseArgv(_, _, _)
ParseArgv(argvText, i, args) ==
    IF i > Len(argvText) THEN args
    ELSE LET arg == argvText[i]
             missing == \/ i + 1 > Len(argvText)
                        \/ argvText[i + 1] = <<>>
                        \/ StartsWith(argvText[i + 1], FLAG_PREFIX)
         IN  IF arg = FLAG_PORT
             THEN IF missing \/ parsePort(argvText[i + 1]) = <<>> THEN Failed(args)
                  ELSE ParseArgv(argvText, i + 2,
                                 [args EXCEPT !.port = parsePort(argvText[i + 1])[1]])
             ELSE IF arg = FLAG_NO_SERVE
             THEN ParseArgv(argvText, i + 1,
                            [args EXCEPT !.serveEnabled = FALSE, !.funnelEnabled = FALSE,
                                         !.serveModeSet = TRUE])
             ELSE IF arg = FLAG_FUNNEL
             THEN ParseArgv(argvText, i + 1,
                            [args EXCEPT !.serveEnabled = TRUE, !.funnelEnabled = TRUE,
                                         !.serveModeSet = TRUE])
             ELSE IF arg = FLAG_PASSWORD
             THEN IF missing
                  THEN ParseArgv(argvText, i + 1, [args EXCEPT !.passwordEnabled = TRUE])
                  ELSE ParseArgv(argvText, i + 2,
                                 [args EXCEPT !.passwordEnabled = TRUE,
                                              !.workspacePassword = argvText[i + 1]])
             ELSE IF arg = FLAG_SERVE
             THEN ParseArgv(argvText, i + 1,
                            [args EXCEPT !.serveEnabled = TRUE, !.funnelEnabled = FALSE,
                                         !.serveModeSet = TRUE])
             ELSE Failed(args)

\* a parseArgs that lets --funnel through without password auth
parseArgsFunnelUnchecked(argvText, environment) ==
    LET parsed == ParseArgv(argvText, 1, ArgsAtStart)
        envPassword == environment.REMOTE_WS_PASSWORD
        workspacePassword ==
            IF parsed.workspacePassword # <<>> THEN parsed.workspacePassword
            ELSE IF envPassword # Absent THEN envPassword[1]
            ELSE environment.configPassword
        passwordEnabled ==
            parsed.passwordEnabled \/ (envPassword # Absent /\ envPassword[1] # <<>>)
    IN  IF parsed.exit # -1 THEN parsed
        ELSE IF passwordEnabled /\ workspacePassword = <<>> THEN Failed(parsed)
        ELSE [parsed EXCEPT
                !.passwordEnabled = passwordEnabled,
                !.workspacePassword = IF passwordEnabled THEN workspacePassword ELSE <<>>,
                !.serveEnabled = IF ~parsed.serveModeSet /\ passwordEnabled
                                 THEN FALSE ELSE parsed.serveEnabled]

\* parseArgs: the loop over argv, then the password from the command line,
\* the environment or the config file, and the checks on the modes
parseArgs(argvText, environment) ==
    LET parsed == ParseArgv(argvText, 1, ArgsAtStart)
        envPassword == environment.REMOTE_WS_PASSWORD
        workspacePassword ==
            IF parsed.workspacePassword # <<>> THEN parsed.workspacePassword
            ELSE IF envPassword # Absent THEN envPassword[1]
            ELSE environment.configPassword
        passwordEnabled ==
            parsed.passwordEnabled \/ (envPassword # Absent /\ envPassword[1] # <<>>)
    IN  IF parsed.exit # -1 THEN parsed
        ELSE IF passwordEnabled /\ workspacePassword = <<>> THEN Failed(parsed)
        ELSE IF parsed.funnelEnabled /\ ~passwordEnabled THEN Failed(parsed)
        ELSE [parsed EXCEPT
                !.passwordEnabled = passwordEnabled,
                !.workspacePassword = IF passwordEnabled THEN workspacePassword ELSE <<>>,
                !.serveEnabled = IF ~parsed.serveModeSet /\ passwordEnabled
                                 THEN FALSE ELSE parsed.serveEnabled]

\* main: the tailscale commands it runs and the environment of the server
\* it spawns (child: <<>> when none is spawned, <<REMOTE_WS_PASSWORD>>
\* otherwise)
main(argvText, environment) ==
    LET args == parseArgs(argvText, environment)
        stopped == [args |-> args, exit |-> 1, serve |-> FALSE, funnel |-> FALSE,
                    child |-> <<>>]
    IN  IF args.exit # -1 THEN stopped
        ELSE IF args.serveEnabled /\ ~environment.tailscaleReady THEN stopped
        ELSE [args |-> args, exit |-> -1,
              serve |-> args.serveEnabled,
              funnel |-> (args.serveEnabled /\ args.funnelEnabled),
              child |-> <<args.workspacePassword>>]

NoEnvironment ==
    [REMOTE_WS_PASSWORD |-> Absent, configPassword |-> <<>>, tailscaleReady |-> FALSE]

\* the launcher has not been started
LaunchQuiet ==
    /\ argv = <<>>
    /\ env = NoEnvironment
    /\ launched = <<>>

----------------------------------------------------------------------------
(* Request handlers.  Every await on a filesystem call or on the ignore     *)
(* oracle is a step of its own; the code between two awaits runs with the   *)
(* step that ends it.                                                       *)

MAX_TREE_ENTRIES == 5000

IdleHandler ==
    [pc |-> "idle", ep |-> "none", arg |-> <<>>, absPath |-> <<>>, realPath |-> <<>>,
     want |-> "", after |-> "", allowHidden |-> FALSE, allowGitIgnored |-> FALSE,
     pending |-> {}, entries |-> {},
     skippedSymlinks |-> 0, skippedHidden |-> 0, skippedIgnored |-> 0,
     part |-> "", body |-> "", before |-> <<>>,
     oracle |-> NotRun, candidates |-> {}, ignoredPathSet |-> {}, vanished |-> {},
     ifNoneMatch |-> <<>>, ifModifiedSince |-> <<>>, stats |-> StatsOf(NoNode)]

\* res.status(code).json({ error: message })
ErrorResponse(code, message) == [NoResponse EXCEPT !.status = code, !.error = message]

\* a body of file content
DataResponse(d) == [NoResponse EXCEPT !.status = 200, !.data = d]

\* a JSON listing
ListResponse(es, sym, hid, ign) ==
    [NoResponse EXCEPT !.status = 200, !.entries = es, !.skippedSymlinks = sym,
                       !.skippedHidden = hid, !.skippedIgnored = ign,
                       !.cacheControl = METADATA_CACHE_CONTROL]

\* the handler of slot r proceeds with new locals
Goto(r, locals) ==
    /\ h' = [h EXCEPT ![r] = locals]
    /\ UNCHANGED resp

\* the handler of slot r sends its response and ends
Ended(locals) ==
    [IdleHandler EXCEPT !.pc = "done", !.ep = locals.ep, !.arg = locals.arg,
                        !.absPath = locals.absPath, !.part = locals.part,
                        !.body = locals.body, !.before = locals.before,
                        !.oracle = locals.oracle, !.candidates = locals.candidates,
                        !.ignoredPathSet = locals.ignoredPathSet,
                        !.vanished = locals.vanished,
                        !.ifNoneMatch = locals.ifNoneMatch,
                        !.ifModifiedSince = locals.ifModifiedSince]

Finish(r, response) ==
    /\ h' = [h EXCEPT ![r] = Ended(h[r])]
    /\ resp' = [resp EXCEPT ![r] = response]

\* the handler of slot r ends with the locals of its last step
FinishWith(r, locals, response) ==
    /\ h' = [h EXCEPT ![r] = Ended(locals)]
    /\ resp' = [resp EXCEPT ![r] = response]

\* a handler that has not awaited anything yet answers at once
Reject(r, started, response) ==
    /\ h' = [h EXCEPT ![r] = [started EXCEPT !.pc = "done"]]
    /\ resp' = [resp EXCEPT ![r] = response]

MainPathArgs ==
    { <<>>, <<"a">>, <<"s">>, <<"s", "/", "b">>, <<"l">>, <<"l", "/">> \o K_PNG,
      <<".", "e">>, <<".", "d">>, <<".", "d", "/", "b">>, <<".", ".">>,
      <<".", ".", "/", "o", "/">> \o K_PNG, <<"/", "o">> }

ImageNameArgs ==
    { <<>>, K_PNG, <<".", ".", "/">> \o K_PNG, <<"a">>, <<".", "e">> }

\* an ensureFile that takes the path it was given for the real path
ensureResolvedWithoutRealpath(f, absPath) ==
    IF ~isWithinRepo(absPath) THEN Err("Resolved path escapes repository root")
    ELSE Ok(absPath)

\* ensureFile / ensureDirectory, the realpath and its containment test
ensureResolved(f, absPath) ==
    LET w == fsRealpath(f, absPath)
    IN  IF ~w.found THEN Err(w.code)
        ELSE IF ~isWithinRepo(w.path) THEN Err("Resolved path escapes repository root")
        ELSE Ok(w.path)

\* GET /api/file and GET /api/text up to the call of ensureFile
BeginPathRead(r, endpoint, args, validators) ==
    /\ h[r].pc = "idle"
    /\ \E arg \in args, sent \in validators :
          LET started == [IdleHandler EXCEPT !.ep = endpoint, !.arg = arg,
                                             !.ifNoneMatch = sent.ifNoneMatch,
                                             !.ifModifiedSince = sent.ifModifiedSince]
              resolved == resolveRepoPath(arg)
          IN  IF arg = <<>>
              THEN Reject(r, started, ErrorResponse(400, "Missing ?path=..."))
              ELSE IF ~resolved.ok
              THEN Reject(r, started, ErrorResponse(400, resolved.error))
              ELSE Goto(r, [started EXCEPT !.pc = "ensureStat", !.absPath = resolved.path,
                                           !.want = "file", !.after = "postStat"])
    /\ UNCHANGED <<fs, lastOp>>

\* a request without If-None-Match and If-Modified-Since
NoValidators == [ifNoneMatch |-> <<>>, ifModifiedSince |-> <<>>]

ApiFileBegin(r) == BeginPathRead(r, "file", MainPathArgs, {NoValidators})

ApiTextBegin(r) == BeginPathRead(r, "text", MainPathArgs, {NoValidators})

\* GET /api/list up to the call of ensureDirectory
ApiListBegin(r) ==
    /\ h[r].pc = "idle"
    /\ \E arg \in MainPathArgs :
          LET started == [IdleHandler EXCEPT !.ep = "list", !.arg = arg]
              resolved == resolveRepoPath(arg)
          IN  IF ~resolved.ok
              THEN Reject(r, started, ErrorResponse(400, resolved.error))
              ELSE Goto(r, [started EXCEPT !.pc = "ensureStat", !.absPath = resolved.path,
                                           !.want = "dir", !.after = "readdir"])
    /\ UNCHANGED <<fs, lastOp>>

\* what a thrown error becomes: the route handlers catch it and answer 400;
\* one thrown inside the upload middleware reaches the error middleware,
\* which answers 500 unless it is a MulterError
FailureStatus(r) == IF h[r].ep = "upload" THEN 500 ELSE 400

\* ensureFile / ensureDirectory: fs.stat and the type test
EnsureStat(r) ==
    /\ h[r].pc = "ensureStat"
    /\ LET stats == fsStat(fs, h[r].absPath)
       IN  /\ lastOp' = FsOp("stat", h[r].absPath, fsRealpath(fs, h[r].absPath))
           /\ IF ~stats.ok THEN Finish(r, ErrorResponse(FailureStatus(r), stats.code))
              ELSE IF h[r].want = "file" /\ stats.node.kind # "file"
              THEN Finish(r, ErrorResponse(FailureStatus(r), "Target path is not a file"))
              ELSE IF h[r].want = "dir" /\ stats.node.kind # "dir"
              THEN Finish(r, ErrorResponse(FailureStatus(r), "Target path is not a directory"))
              ELSE Goto(r, [h[r] EXCEPT !.pc = "ensureRealpath"])
    /\ UNCHANGED fs

\* ensureFile / ensureDirectory: fs.realpath and the containment test
EnsureRealpath(r) ==
    /\ h[r].pc = "ensureRealpath"
    /\ LET resolved == ensureResolved(fs, h[r].absPath)
       IN  /\ lastOp' = FsOp("realpath", h[r].absPath, fsRealpath(fs, h[r].absPath))
           /\ IF ~resolved.ok THEN Finish(r, ErrorResponse(FailureStatus(r), resolved.error))
              ELSE Goto(r, [h[r] EXCEPT !.pc = "ensureAccessible",
                                        !.realPath = resolved.path])
    /\ UNCHANGED fs

\* ensureFile / ensureDirectory: assertPathAccessible(realPath, options)
EnsureAccessible(r) ==
    /\ h[r].pc = "ensureAccessible"
    /\ \E run \in (IF AsksOracle(h[r].realPath, h[r].allowHidden, h[r].allowGitIgnored)
                    THEN RunsFor({toRepoRelativePath(h[r].realPath)})
                    ELSE {NotRun}) :
          LET ignoredPathSet == getGitIgnoredPathSet({toRepoRelativePath(h[r].realPath)}, run)
              problem == assertPathAccessible(h[r].realPath, h[r].allowHidden,
                                              h[r].allowGitIgnored, ignoredPathSet)
              locals == [h[r] EXCEPT !.oracle = run]
          IN  IF problem # NoError
              THEN FinishWith(r, locals, ErrorResponse(FailureStatus(r), problem))
              ELSE Goto(r, [locals EXCEPT !.pc = h[r].after])
    /\ UNCHANGED <<fs, lastOp>>

\* GET /api/file and GET /api/text: fs.stat(absPath) after ensureFile
\* for /api/file with an image type, setImageCacheHeaders follows
ReadStat(r) ==
    /\ h[r].pc = "postStat"
    /\ LET stats == fsStat(fs, h[r].absPath)
           locals == [h[r] EXCEPT !.stats = StatsOf(stats.node)]
           cached == setImageCacheHeaders(h[r], NoResponse, StatsOf(stats.node))
       IN  /\ lastOp' = FsOp("stat", h[r].absPath, fsRealpath(fs, h[r].absPath))
           /\ IF ~stats.ok THEN Finish(r, ErrorResponse(400, stats.code))
              ELSE IF /\ h[r].ep = "file"
                      /\ mimeTypeOf(h[r].absPath) \in IMAGE_MIME_TYPES
                      /\ cached.notModified
              THEN FinishWith(r, locals, cached.res)
              ELSE Goto(r, [locals EXCEPT !.pc = "read"])
    /\ UNCHANGED fs

\* Content-Type, Content-Length and pipeline(createReadStream(absPath), res)
\* on a response that may have its cache headers set: the file is opened
\* and sent; when the open fails nothing has been sent yet and the catch
\* block answers 400 on the same response
StreamOutcome(f, absPath, res, stats) ==
    LET opened == fsStat(f, absPath)
    IN  IF ~opened.ok THEN [res EXCEPT !.status = 400, !.error = opened.code]
        ELSE IF opened.node.kind # "file" THEN [res EXCEPT !.status = 400, !.error = "EISDIR"]
        ELSE [res EXCEPT !.status = 200, !.data = opened.node.data,
                         !.contentType = mimeTypeOf(absPath),
                         !.contentLength = ToString(stats.size)]

\* what opening the path for reading and reading it gives
ReadOutcome(f, absPath) ==
    LET stats == fsStat(f, absPath)
    IN  IF ~stats.ok THEN ErrorResponse(400, stats.code)
        ELSE IF stats.node.kind # "file" THEN ErrorResponse(400, "EISDIR")
        ELSE DataResponse(stats.node.data)

\* GET /api/file: createReadStream(absPath) piped into the response
ApiFileStream(r) ==
    /\ h[r].pc = "read"
    /\ h[r].ep = "file"
    /\ lastOp' = FsOp("open", h[r].absPath, fsRealpath(fs, h[r].absPath))
    /\ LET res == IF mimeTypeOf(h[r].absPath) \in IMAGE_MIME_TYPES
                  THEN setImageCacheHeaders(h[r], NoResponse, h[r].stats).res
                  ELSE NoResponse
       IN  Finish(r, StreamOutcome(fs, h[r].absPath, res, h[r].stats))
    /\ UNCHANGED fs

\* GET /api/text: fs.open(absPath), handle.read, the JSON answer
ApiTextRead(r) ==
    /\ h[r].pc = "read"
    /\ h[r].ep = "text"
    /\ lastOp' = FsOp("open", h[r].absPath, fsRealpath(fs, h[r].absPath))
    /\ Finish(r, ReadOutcome(fs, h[r].absPath))
    /\ UNCHANGED fs

\* a listed child as the handler carries it
Candidate(directoryPath, dirEntry) ==
    [name |-> dirEntry.name,
     childPath |-> Append(directoryPath, dirEntry.name),
     childRepoRelativePath |-> toRepoRelativePath(Append(directoryPath, dirEntry.name)),
     isDirectory |-> dirEntry.kind = "dir"]

\* GET /api/list: fs.readdir and the first loop over the entries
ApiListReaddir(r) ==
    /\ h[r].pc = "readdir"
    /\ LET listed == fsReaddir(fs, h[r].absPath)
           links == {e \in listed.entries : e.kind = "link"}
           others == listed.entries \ links
           hidden == {e \in others :
                         isBlockedHiddenRepoRelativePath(
                             toRepoRelativePath(Append(h[r].absPath, e.name)))}
           kept == {e \in others \ hidden : e.kind \in {"dir", "file"}}
       IN  /\ lastOp' = FsOp("readdir", h[r].absPath, fsRealpath(fs, h[r].absPath))
           /\ IF ~listed.ok THEN Finish(r, ErrorResponse(400, listed.code))
              ELSE Goto(r, [h[r] EXCEPT !.pc = "oracle",
                                        !.skippedSymlinks = Cardinality(links),
                                        !.skippedHidden = Cardinality(hidden),
                                        !.candidates = {Candidate(h[r].absPath, e) : e \in kept},
                                        !.pending = {Candidate(h[r].absPath, e) : e \in kept}])
    /\ UNCHANGED fs

\* GET /api/list: the answer once every candidate has been looked at
ListAnswer(locals) ==
    ListResponse(locals.entries, locals.skippedSymlinks, locals.skippedHidden,
                 locals.skippedIgnored)

\* GET /api/list: getGitIgnoredPathSet over the candidates; the ignored
\* ones are counted and dropped
ApiListOracle(r) ==
    /\ h[r].pc = "oracle"
    /\ \E run \in RunsFor({c.childRepoRelativePath : c \in h[r].pending}) :
          LET ignoredPathSet ==
                  getGitIgnoredPathSet({c.childRepoRelativePath : c \in h[r].pending}, run)
              ignored == {c \in h[r].pending : c.childRepoRelativePath \in ignoredPathSet}
              locals == [h[r] EXCEPT !.pc = "childStat",
                                     !.oracle = run,
                                     !.ignoredPathSet = ignoredPathSet,
                                     !.skippedIgnored = Cardinality(ignored),
                                     !.pending = h[r].pending \ ignored]
          IN  IF locals.pending = {} THEN FinishWith(r, locals, ListAnswer(locals))
              ELSE Goto(r, locals)
    /\ UNCHANGED <<fs, lastOp>>

\* a stat loop without its try/catch: a failed stat fails the request
ApiListChildStatUncaught(r) ==
    /\ h[r].pc = "childStat"
    /\ LET candidate == CHOOSE c \in h[r].pending : TRUE
           stats == fsStat(fs, candidate.childPath)
           entry == [name |-> candidate.name, path |-> candidate.childRepoRelativePath,
                     type |-> IF candidate.isDirectory THEN "directory" ELSE "file"]
           locals == [h[r] EXCEPT !.pending = h[r].pending \ {candidate},
                                  !.entries = IF stats.ok THEN h[r].entries \cup {entry}
                                              ELSE h[r].entries,
                                  !.vanished = IF stats.ok THEN h[r].vanished
                                               ELSE h[r].vanished \cup {candidate}]
       IN  /\ lastOp' = FsOp("stat", candidate.childPath, fsRealpath(fs, candidate.childPath))
           /\ IF ~stats.ok THEN FinishWith(r, locals, ErrorResponse(400, stats.code))
              ELSE IF locals.pending = {} THEN FinishWith(r, locals, ListAnswer(locals))
              ELSE Goto(r, locals)
    /\ UNCHANGED fs

\* GET /api/list: fs.stat of the next candidate; a failed stat drops it
ApiListChildStat(r) ==
    /\ h[r].pc = "childStat"
    /\ LET candidate == CHOOSE c \in h[r].pending : TRUE
           stats == fsStat(fs, candidate.childPath)
           entry == [name |-> candidate.name, path |-> candidate.childRepoRelativePath,
                     type |-> IF candidate.isDirectory THEN "directory" ELSE "file"]
           locals == [h[r] EXCEPT !.pending = h[r].pending \ {candidate},
                                  !.entries = IF stats.ok THEN h[r].entries \cup {entry}
                                              ELSE h[r].entries,
                                  !.vanished = IF stats.ok THEN h[r].vanished
                                               ELSE h[r].vanished \cup {candidate}]
       IN  /\ lastOp' = FsOp("stat", candidate.childPath, fsRealpath(fs, candidate.childPath))
           /\ IF locals.pending = {} THEN FinishWith(r, locals, ListAnswer(locals))
              ELSE Goto(r, locals)
    /\ UNCHANGED fs

\* what `git ls-files` may print
TreePathUniverse ==
    { <<"a">>, <<"s", "/", "b">>, <<".", "e">>, <<"s", "/", ".", "h">>,
      <<".", "g", "/", "c">> }

\* the paths of the nodes buildTreeFromPaths creates for one file path
TreeNodePaths(filePath) ==
    LET segments == SplitSlash(filePath)
    IN  {JoinSlash(SubSeq(segments, 1, i)) : i \in 1..Len(segments)}

\* GET /api/tree up to the call of git
ApiTreeBegin(r) ==
    /\ h[r].pc = "idle"
    /\ Goto(r, [IdleHandler EXCEPT !.pc = "lsFiles", !.ep = "tree"])
    /\ UNCHANGED <<fs, lastOp>>

\* GET /api/tree: the output of git filtered, truncated and built into a tree
ApiTreeLsFiles(r) ==
    /\ h[r].pc = "lsFiles"
    /\ \/ Finish(r, ErrorResponse(400, "Command failed"))
       \/ \E allPaths \in SUBSET TreePathUniverse :
             LET visiblePaths == {q \in allPaths : ~isHiddenRepoRelativePath(q)}
                 truncated == Cardinality(visiblePaths) > MAX_TREE_ENTRIES
                 paths == IF truncated
                          THEN CHOOSE kept \in SUBSET visiblePaths :
                                   Cardinality(kept) = MAX_TREE_ENTRIES
                          ELSE visiblePaths
             IN  Finish(r, ListResponse(UNION {TreeNodePaths(q) : q \in paths}, 0, 0, 0))
    /\ UNCHANGED <<fs, lastOp>>

\* the image files among directory entries
ImageFileEntries(dirEntries) ==
    {e \in dirEntries : /\ e.kind = "file"
                        /\ ToLowerCase(PathExtname(e.name)) \in ALLOWED_IMAGE_EXTENSIONS}

\* GET /api/screenshots/list: fs.readdir, a failure read as an empty
\* directory, and the filter for image files
ApiScreenshotsListReaddir(r) ==
    /\ h[r].pc = "idle"
    /\ LET listed == fsReaddir(fs, SCREENSHOTS_DIRECTORY_PATH)
           images == ImageFileEntries(listed.entries)
           locals == [IdleHandler EXCEPT !.pc = "shotStat", !.ep = "shotList",
                                         !.absPath = SCREENSHOTS_DIRECTORY_PATH,
                                         !.pending = {e.name : e \in images}]
       IN  /\ lastOp' = FsOp("readdir", SCREENSHOTS_DIRECTORY_PATH,
                             fsRealpath(fs, SCREENSHOTS_DIRECTORY_PATH))
           /\ IF locals.pending = {}
              THEN Reject(r, locals, ListResponse({}, 0, 0, 0))
              ELSE Goto(r, locals)
    /\ UNCHANGED fs

\* GET /api/screenshots/list: fs.stat of the next image; a failed stat
\* drops it
ApiScreenshotsListStat(r) ==
    /\ h[r].pc = "shotStat"
    /\ LET name == CHOOSE n \in h[r].pending : TRUE
           absPath == Append(SCREENSHOTS_DIRECTORY_PATH, name)
           stats == fsStat(fs, absPath)
           entry == [name |-> name,
                     path |-> SCREENSHOTS_DIRECTORY_NAME \o <<"/">> \o name,
                     type |-> "file"]
           locals == [h[r] EXCEPT !.pending = h[r].pending \ {name},
                                  !.entries = IF stats.ok THEN h[r].entries \cup {entry}
                                              ELSE h[r].entries]
       IN  /\ lastOp' = FsOp("stat", absPath, fsRealpath(fs, absPath))
           /\ IF locals.pending = {} THEN Finish(r, ListResponse(locals.entries, 0, 0, 0))
              ELSE Goto(r, locals)
    /\ UNCHANGED fs

\* DELETE /api/screenshots/file up to the call of fs.unlink, for a name of
\* the given set; `seen` is what the handler record keeps of the filesystem
\* the request found
ScreenshotsDeleteBegin(r, names, seen) ==
    /\ h[r].pc = "idle"
    /\ \E name \in names :
          LET started == [IdleHandler EXCEPT !.ep = "shotDelete", !.arg = name,
                                             !.before = seen]
              resolved == resolveNamedImagePath(SCREENSHOTS_DIRECTORY_PATH, name)
          IN  IF name = <<>> \/ ~resolved.ok
              THEN Reject(r, started,
                          ErrorResponse(400, IF name = <<>> THEN "Missing ?name=..."
                                             ELSE resolved.error))
              ELSE Goto(r, [started EXCEPT !.pc = "unlink", !.absPath = resolved.path])
    /\ UNCHANGED <<fs, lastOp>>

ApiScreenshotsDeleteBegin(r) == ScreenshotsDeleteBegin(r, ImageNameArgs, <<>>)

\* a delete handler whose catch block has no branch for ENOENT
DeleteAnswerWithoutNotFound(target) ==
    IF target.found THEN [NoResponse EXCEPT !.status = 204, !.cacheControl = "no-store"]
    ELSE ErrorResponse(400, target.code)

\* what a delete handler answers after fs.unlink: 204 without a body, 404
\* for ENOENT, 400 with the message of any other error
DeleteAnswer(target) ==
    IF target.found THEN [NoResponse EXCEPT !.status = 204, !.cacheControl = "no-store"]
    ELSE IF target.code = "ENOENT" THEN ErrorResponse(404, "File not found")
    ELSE ErrorResponse(400, target.code)

\* DELETE /api/screenshots/file: fs.unlink and the answer
ApiScreenshotsDeleteUnlink(r) ==
    /\ h[r].pc = "unlink"
    /\ h[r].ep = "shotDelete"
    /\ LET target == UnlinkTarget(fs, h[r].absPath)
       IN  /\ lastOp' = FsOp("unlink", h[r].absPath, target)
           /\ fs' = IF target.found THEN [fs EXCEPT ![target.path] = NoNode] ELSE fs
           /\ Finish(r, DeleteAnswer(target))

\* the client has its response; the slot is free for the next request
\* fs.mkdir(path, { recursive: true }): the filesystem afterwards, or the
\* error
RECURSIVE MkdirRecursive(_, _)
MkdirRecursive(f, p) ==
    LET stats == fsStat(f, p)
    IN  IF stats.ok
        THEN IF stats.node.kind = "dir" THEN [ok |-> TRUE, fs |-> f, code |-> ""]
             ELSE [ok |-> FALSE, fs |-> f, code |-> "EEXIST"]
        ELSE IF NodeAt(f, p).kind # "none" \/ p = <<>>
        THEN [ok |-> FALSE, fs |-> f, code |-> stats.code]
        ELSE LET above == MkdirRecursive(f, ParentOf(p))
             IN  IF ~above.ok THEN above
                 ELSE LET w == fsRealpath(above.fs, ParentOf(p))
                      IN  [ok |-> TRUE, code |-> "",
                           fs |-> MapSet(above.fs, Append(w.path, p[Len(p)]), DirNode)]

\* fs.existsSync
existsSync(f, p) == fsStat(f, p).ok

\* where fs.createWriteStream(path) opens its file (flag "w": an existing
\* file is truncated, a missing one created)
OpenTarget(f, p) ==
    LET w == fsRealpath(f, p)
        above == fsRealpath(f, ParentOf(p))
    IN  IF w.found
        THEN IF f[w.path].kind = "dir" THEN FsError("EISDIR") ELSE w
        ELSE IF ~above.found THEN FsError(above.code)
        ELSE IF f[above.path].kind # "dir" THEN FsError("ENOTDIR")
        ELSE LET slot == Append(above.path, p[Len(p)])
             IN  IF NodeAt(f, slot).kind = "link" THEN FsError(w.code)
                 ELSE FsFound(slot)

\* the file part of the multipart body: none, or its mimetype and
\* originalname
UploadParts ==
    { [mimetype |-> "", originalname |-> <<>>],
      [mimetype |-> "image/png", originalname |-> <<"p", ".", "p", "n", "g">>],
      [mimetype |-> "image/png", originalname |-> <<"b", "l", "o", "b">>],
      [mimetype |-> "image/png", originalname |-> <<"x", ".", "e", "x", "e">>],
      [mimetype |-> "text/plain", originalname |-> <<"p", ".", "p", "n", "g">>] }

\* upload.fileFilter: TRUE when the part is let through
fileFilter(part) ==
    LET isImageMime == part.mimetype \in {"image/png"}
        originalExtension == ToLowerCase(PathExtname(part.originalname))
    IN  ~(\/ ~isImageMime
          \/ (originalExtension # <<>> /\ originalExtension \notin ALLOWED_IMAGE_EXTENSIONS))

\* the body an upload in slot r carries
UploadBody(r) == IF r = 1 THEN "U1" ELSE "U2"

\* the JSON handleClipboardUpload answers with
UploadedResponse(fileName, absPath) ==
    [NoResponse EXCEPT !.status = 200,
                       !.entries = {[name |-> fileName, path |-> toRepoRelativePath(absPath)]}]

\* POST /api/clipboard/upload?name=...: multer reads the request up to the
\* file part, and runs fileFilter on it
UploadBegin(r, names) ==
    /\ h[r].pc = "idle"
    /\ \E name \in names, part \in UploadParts :
          LET started == [IdleHandler EXCEPT !.ep = "upload", !.arg = name,
                                             !.part = part.mimetype,
                                             !.body = UploadBody(r), !.before = fs]
          IN  IF part.mimetype = ""
              THEN Reject(r, started, ErrorResponse(400, "Missing upload file"))
              ELSE IF ~fileFilter(part)
              THEN Reject(r, started, ErrorResponse(500, "Only image uploads are allowed"))
              ELSE Goto(r, [started EXCEPT !.pc = "uploadMkdir"])
    /\ UNCHANGED <<fs, lastOp>>

\* storage.destination: ensureClipboardDirectoryReady, fs.mkdir
UploadMkdir(r) ==
    /\ h[r].pc = "uploadMkdir"
    /\ LET made == MkdirRecursive(fs, CLIPBOARD_DIRECTORY_PATH)
       IN  /\ fs' = made.fs
           /\ lastOp' = FsOp("mkdir", CLIPBOARD_DIRECTORY_PATH,
                             fsRealpath(made.fs, CLIPBOARD_DIRECTORY_PATH))
           /\ IF ~made.ok THEN Finish(r, ErrorResponse(500, made.code))
              ELSE Goto(r, [h[r] EXCEPT !.pc = "ensureStat",
                                        !.absPath = CLIPBOARD_DIRECTORY_PATH,
                                        !.want = "dir", !.after = "uploadFilename",
                                        !.allowHidden = TRUE, !.allowGitIgnored = TRUE])

\* storage.filename: the name is sanitized and validated and the target is
\* looked up with existsSync; multer then calls fs.createWriteStream, which
\* opens the file later
UploadFilename(r) ==
    /\ h[r].pc = "uploadFilename"
    /\ LET requestedName == h[r].arg
           sanitizedRequestedName == sanitizeUploadFilename(requestedName)
           validationError == validateUploadFilename(sanitizedRequestedName)
           targetPath == Append(CLIPBOARD_DIRECTORY_PATH, sanitizedRequestedName)
       IN  IF requestedName = <<>>
           THEN /\ Finish(r, ErrorResponse(500, "Missing required query parameter: name"))
                /\ UNCHANGED lastOp
           ELSE IF validationError # NoError
           THEN /\ Finish(r, ErrorResponse(500, validationError))
                /\ UNCHANGED lastOp
           ELSE /\ lastOp' = FsOp("exists", targetPath, fsRealpath(fs, targetPath))
                /\ IF existsSync(fs, targetPath)
                   THEN Finish(r, ErrorResponse(500, "Filename already exists"))
                   ELSE Goto(r, [h[r] EXCEPT !.pc = "uploadOpen", !.absPath = targetPath])
    /\ UNCHANGED fs

\* the write stream of multer's disk storage opens its file
UploadOpen(r) ==
    /\ h[r].pc = "uploadOpen"
    /\ LET target == OpenTarget(fs, h[r].absPath)
       IN  /\ lastOp' = FsOp("open", h[r].absPath, target)
           /\ IF ~target.found
              THEN /\ Finish(r, ErrorResponse(500, target.code))
                   /\ UNCHANGED fs
              ELSE /\ fs' = MapSet(fs, target.path, FileNodeAt("", WRITTEN_MTIME_US))
                   /\ Goto(r, [h[r] EXCEPT !.pc = "uploadWrite", !.realPath = target.path])

\* the body is written to the open file, the stream finishes and
\* handleClipboardUpload answers
UploadWrite(r) ==
    /\ h[r].pc = "uploadWrite"
    /\ fs' = IF NodeAt(fs, h[r].realPath).kind = "file"
             THEN MapSet(fs, h[r].realPath, FileNodeAt(h[r].body, WRITTEN_MTIME_US))
             ELSE fs
    /\ lastOp' = FsOp("write", h[r].absPath, FsFound(h[r].realPath))
    /\ Finish(r, UploadedResponse(h[r].absPath[Len(h[r].absPath)], h[r].absPath))

\* ensureClipboardDirectoryReady as the clipboard routes call it: fs.mkdir,
\* then ensureDirectory with hidden and ignored paths allowed
ClipboardMkdir(r) ==
    /\ h[r].pc = "clipboardMkdir"
    /\ LET made == MkdirRecursive(fs, CLIPBOARD_DIRECTORY_PATH)
       IN  /\ fs' = made.fs
           /\ lastOp' = FsOp("mkdir", CLIPBOARD_DIRECTORY_PATH,
                             fsRealpath(made.fs, CLIPBOARD_DIRECTORY_PATH))
           /\ IF ~made.ok THEN Finish(r, ErrorResponse(400, made.code))
              ELSE Goto(r, [h[r] EXCEPT !.pc = "ensureStat",
                                        !.absPath = CLIPBOARD_DIRECTORY_PATH,
                                        !.want = "dir",
                                        !.allowHidden = TRUE, !.allowGitIgnored = TRUE])

\* DELETE /api/clipboard/file up to ensureClipboardDirectoryReady
ApiClipboardDeleteBegin(r, names) ==
    /\ h[r].pc = "idle"
    /\ \E name \in names :
          LET started == [IdleHandler EXCEPT !.ep = "clipDelete", !.arg = name,
                                             !.before = fs]
          IN  IF name = <<>>
              THEN Reject(r, started, ErrorResponse(400, "Missing ?name=..."))
              ELSE Goto(r, [started EXCEPT !.pc = "clipboardMkdir", !.after = "clipUnlink"])
    /\ UNCHANGED <<fs, lastOp>>

\* DELETE /api/clipboard/file: resolveNamedImagePath, fs.unlink and the
\* answer
ApiClipboardDeleteUnlink(r) ==
    /\ h[r].pc = "clipUnlink"
    /\ LET resolved == resolveNamedImagePath(CLIPBOARD_DIRECTORY_PATH, h[r].arg)
           target == UnlinkTarget(fs, resolved.path)
       IN  IF ~resolved.ok
           THEN /\ Finish(r, ErrorResponse(400, resolved.error))
                /\ UNCHANGED <<fs, lastOp>>
           ELSE /\ lastOp' = FsOp("unlink", resolved.path, target)
                /\ fs' = IF target.found THEN [fs EXCEPT ![target.path] = NoNode] ELSE fs
                /\ h' = [h EXCEPT ![r] = [IdleHandler EXCEPT !.pc = "done", !.ep = h[r].ep,
                                              !.arg = h[r].arg, !.absPath = resolved.path,
                                              !.before = h[r].before]]
                /\ resp' = [resp EXCEPT ![r] = DeleteAnswer(target)]

\* GET /api/clipboard/file up to ensureClipboardDirectoryReady
ApiClipboardFileBegin(r, names, validators) ==
    /\ h[r].pc = "idle"
    /\ \E name \in names, sent \in validators :
          LET started == [IdleHandler EXCEPT !.ep = "clipFile", !.arg = name,
                                             !.ifNoneMatch = sent.ifNoneMatch,
                                             !.ifModifiedSince = sent.ifModifiedSince,
                                             !.before = fs]
          IN  IF name = <<>>
              THEN Reject(r, started, ErrorResponse(400, "Missing ?name=..."))
              ELSE Goto(r, [started EXCEPT !.pc = "clipboardMkdir",
                                           !.after = "clipFileResolve"])
    /\ UNCHANGED <<fs, lastOp>>

\* GET /api/clipboard/file: resolveNamedImagePath and the call of ensureFile
ApiClipboardFileResolve(r) ==
    /\ h[r].pc = "clipFileResolve"
    /\ LET resolved == resolveNamedImagePath(CLIPBOARD_DIRECTORY_PATH, h[r].arg)
       IN  IF ~resolved.ok THEN Finish(r, ErrorResponse(400, resolved.error))
           ELSE Goto(r, [h[r] EXCEPT !.pc = "ensureStat", !.absPath = resolved.path,
                                     !.want = "file", !.after = "imageStat",
                                     !.allowHidden = TRUE, !.allowGitIgnored = TRUE])
    /\ UNCHANGED <<fs, lastOp>>

\* GET /api/clipboard/file: fs.stat(absPath) and setImageCacheHeaders
ApiClipboardFileStat(r) ==
    /\ h[r].pc = "imageStat"
    /\ LET stats == fsStat(fs, h[r].absPath)
           locals == [h[r] EXCEPT !.stats = StatsOf(stats.node)]
           cached == setImageCacheHeaders(h[r], NoResponse, StatsOf(stats.node))
       IN  /\ lastOp' = FsOp("stat", h[r].absPath, fsRealpath(fs, h[r].absPath))
           /\ IF ~stats.ok THEN Finish(r, ErrorResponse(400, stats.code))
              ELSE IF cached.notModified THEN FinishWith(r, locals, cached.res)
              ELSE Goto(r, [locals EXCEPT !.pc = "imageStream"])
    /\ UNCHANGED fs

\* GET /api/screenshots/file up to fs.stat
ApiScreenshotsFileBegin(r, names, validators) ==
    /\ h[r].pc = "idle"
    /\ \E name \in names, sent \in validators :
          LET started == [IdleHandler EXCEPT !.ep = "shotFile", !.arg = name,
                                             !.ifNoneMatch = sent.ifNoneMatch,
                                             !.ifModifiedSince = sent.ifModifiedSince,
                                             !.before = fs]
              resolved == resolveNamedImagePath(SCREENSHOTS_DIRECTORY_PATH, name)
          IN  IF name = <<>>
              THEN Reject(r, started, ErrorResponse(400, "Missing ?name=..."))
              ELSE IF ~resolved.ok
              THEN Reject(r, started, ErrorResponse(400, resolved.error))
              ELSE Goto(r, [started EXCEPT !.pc = "shotStat", !.absPath = resolved.path])
    /\ UNCHANGED <<fs, lastOp>>

\* GET /api/screenshots/file: fs.stat(absPath) and the isFile test
ApiScreenshotsFileStat(r) ==
    /\ h[r].pc = "shotStat"
    /\ LET stats == fsStat(fs, h[r].absPath)
       IN  /\ lastOp' = FsOp("stat", h[r].absPath, fsRealpath(fs, h[r].absPath))
           /\ IF ~stats.ok THEN Finish(r, ErrorResponse(400, stats.code))
              ELSE IF stats.node.kind # "file" THEN Finish(r, ErrorResponse(400, "Not a file"))
              ELSE Goto(r, [h[r] EXCEPT !.pc = "shotRealpath",
                                        !.stats = StatsOf(stats.node)])
    /\ UNCHANGED fs

\* GET /api/screenshots/file: fs.realpath(absPath), the containment test
\* against the screenshots directory and setImageCacheHeaders
ApiScreenshotsFileRealpath(r) ==
    /\ h[r].pc = "shotRealpath"
    /\ LET real == fsRealpath(fs, h[r].absPath)
           relativeToDirectory == PathRelative(SCREENSHOTS_DIRECTORY_PATH, real.path)
           cached == setImageCacheHeaders(h[r], NoResponse, h[r].stats)
       IN  /\ lastOp' = FsOp("realpath", h[r].absPath, real)
           /\ IF ~real.found THEN Finish(r, ErrorResponse(400, real.code))
              ELSE IF \/ StartsWith(relativeToDirectory, <<".", ".">>)
                      \/ IsAbsolute(relativeToDirectory)
              THEN Finish(r, ErrorResponse(400, "Path escapes target directory"))
              ELSE IF cached.notModified THEN Finish(r, cached.res)
              ELSE Goto(r, [h[r] EXCEPT !.pc = "imageStream", !.realPath = real.path])
    /\ UNCHANGED fs

\* GET /api/clipboard/file and GET /api/screenshots/file: Content-Type,
\* Content-Length and the stream
ImageStream(r) ==
    /\ h[r].pc = "imageStream"
    /\ lastOp' = FsOp("open", h[r].absPath, fsRealpath(fs, h[r].absPath))
    /\ Finish(r, StreamOutcome(fs, h[r].absPath,
                               setImageCacheHeaders(h[r], NoResponse, h[r].stats).res,
                               h[r].stats))
    /\ UNCHANGED fs

Close(r) ==
    /\ h[r].pc = "done"
    /\ h' = [h EXCEPT ![r] = IdleHandler]
    /\ resp' = [resp EXCEPT ![r] = NoResponse]
    /\ lastOp' = NoOp
    /\ UNCHANGED fs

\* another program changes the filesystem while no request is being handled
ExternalChangeBetweenRequests ==
    /\ \A r \in DOMAIN h : h[r].pc = "idle"
    /\ \E p \in ChangingPaths :
          \E node \in NodeChoices(p) :
             /\ CanChange(fs, p, node)
             /\ fs' = ChangeFs(fs, p, node)
    /\ UNCHANGED <<h, resp, lastOp>>

\* another program changes the filesystem at any moment of a request
ExternalChangeAnytime ==
    /\ \A r \in DOMAIN h : h[r].pc # "done"
    /\ \E p \in ChangingPaths :
          \E node \in NodeChoices(p) :
             /\ CanChange(fs, p, node)
             /\ fs' = ChangeFs(fs, p, node)
    /\ UNCHANGED <<h, resp, lastOp>>

\* no request in flight, one slot
FsQuiet ==
    /\ fs = InitialFs
    /\ h = [r \in {1} |-> IdleHandler]
    /\ resp = [r \in {1} |-> NoResponse]
    /\ lastOp = NoOp

PathQuiet ==
    /\ rawPath = <<>>
    /\ resolveResult = <<>>

NameQuiet ==
    /\ uploadName = <<>>
    /\ verdict = <<>>

NoConditional ==
    [ifNoneMatch |-> <<>>, ifModifiedSince |-> <<>>, stats |-> StatsOf(NoNode)]

CacheQuiet ==
    /\ conditional = NoConditional
    /\ notModified = <<>>

InitFs == FsQuiet /\ PathQuiet /\ GwQuiet /\ NameQuiet /\ CacheQuiet /\ LaunchQuiet

Handle(r) ==
    \/ ApiFileBegin(r)
    \/ ApiTextBegin(r)
    \/ ApiListBegin(r)
    \/ EnsureStat(r)
    \/ EnsureRealpath(r)
    \/ EnsureAccessible(r)
    \/ ReadStat(r)
    \/ ApiFileStream(r)
    \/ ApiTextRead(r)
    \/ ApiListReaddir(r)
    \/ ApiListOracle(r)
    \/ ApiListChildStat(r)
    \/ ApiTreeBegin(r)
    \/ ApiTreeLsFiles(r)
    \/ ApiScreenshotsListReaddir(r)
    \/ ApiScreenshotsListStat(r)
    \/ ApiScreenshotsDeleteBegin(r)
    \/ ApiScreenshotsDeleteUnlink(r)
    \/ Close(r)

\* the filesystem changes only between requests
NextFs ==
    \/ \E r \in DOMAIN h : Handle(r) /\ UNCHANGED <<pathVars, gwVars, nameVars, cacheVars, launchVars>>
    \/ ExternalChangeBetweenRequests /\ UNCHANGED <<pathVars, gwVars, nameVars, cacheVars, launchVars>>

SpecFs == InitFs /\ [][NextFs]_vars

\* the filesystem changes while requests are handled
NextFsRace ==
    \/ \E r \in DOMAIN h : Handle(r) /\ UNCHANGED <<pathVars, gwVars, nameVars, cacheVars, launchVars>>
    \/ ExternalChangeAnytime /\ UNCHANGED <<pathVars, gwVars, nameVars, cacheVars, launchVars>>

SpecFsRace == InitFs /\ [][NextFsRace]_vars

\* the candidates: a few characters of every kind, then an ending
NameAlphabet == {"a", "P", "7", ".", "_", "-", "SP", "/", "SOH"}

NameEndings ==
    ALLOWED_IMAGE_EXTENSIONS \cup
    { <<>>, <<".", "P", "N", "G">>, <<".", "P", "n", "g">>, <<".", "e", "x", "e">>,
      <<".", "p", "n">>, <<".", "p", "n", "g", "x">>, <<"p", "n", "g">>,
      <<".", "p", "n", "g", ".">>, <<".", "p", "n", "g", ".", "e", "x", "e">>,
      <<".", "e", "x", "e", ".", "p", "n", "g">> }

Candidates ==
    { stem \o ending : stem \in StringsUpTo(NameAlphabet, MaxStemLen), ending \in NameEndings }

InitValidate ==
    /\ uploadName \in Candidates
    /\ verdict = <<>>
    /\ FsQuiet /\ PathQuiet /\ GwQuiet /\ CacheQuiet /\ LaunchQuiet

Validate ==
    /\ verdict = <<>>
    /\ verdict' = <<validateUploadFilename(uploadName)>>
    /\ UNCHANGED <<uploadName, pathVars, fsVars, gwVars, cacheVars, launchVars>>

NextValidate == Validate

SpecValidate == InitValidate /\ [][NextValidate]_vars

\* the names of uploads
UploadAlphabet == {"a", ".", "SP", "TAB", "/", "\\", "SOH"}

UploadEndings ==
    { <<>>, <<".", "p", "n", "g">>, <<".", "P", "N", "G">>, <<".", "e", "x", "e">>,
      <<".", "p", "n", "g", "SP">>, <<".", "p", "n", "g", "/">> }

UploadNames ==
    { stem \o ending : stem \in StringsUpTo(UploadAlphabet, MaxUploadStemLen),
                       ending \in UploadEndings }

RaceNames == { K_PNG, <<"SP">> \o K_PNG, <<"a", ".", "p", "n", "g">> }

\* a file stored before the server started
STORED_BEFORE == FileNode("OLD")

\* the clipboard directory before the first upload: missing, empty, or
\* holding k.png
UploadStartFs ==
    { InitialFs,
      MapSet(InitialFs, CLIPBOARD_DIRECTORY_PATH, DirNode),
      MapSet(MapSet(InitialFs, CLIPBOARD_DIRECTORY_PATH, DirNode),
             Append(CLIPBOARD_DIRECTORY_PATH, K_PNG), STORED_BEFORE) }

UploadQuiet(slots) ==
    /\ fs \in UploadStartFs
    /\ h = [r \in slots |-> IdleHandler]
    /\ resp = [r \in slots |-> NoResponse]
    /\ lastOp = NoOp

\* one upload, from its arrival to its response
Upload(r, names) ==
    \/ UploadBegin(r, names)
    \/ UploadMkdir(r)
    \/ EnsureStat(r)
    \/ EnsureRealpath(r)
    \/ EnsureAccessible(r)
    \/ UploadFilename(r)
    \/ UploadOpen(r)
    \/ UploadWrite(r)

InitUploadNames == UploadQuiet({1}) /\ PathQuiet /\ GwQuiet /\ NameQuiet /\ CacheQuiet /\ LaunchQuiet

NextUploadNames == Upload(1, UploadNames) /\ UNCHANGED <<pathVars, gwVars, nameVars, cacheVars, launchVars>>

SpecUploadNames == InitUploadNames /\ [][NextUploadNames]_vars

InitUploadRace == UploadQuiet({1, 2}) /\ PathQuiet /\ GwQuiet /\ NameQuiet /\ CacheQuiet /\ LaunchQuiet

\* two uploads, their steps interleaved as the event loop runs them
NextUploadRace ==
    \E r \in DOMAIN h : Upload(r, RaceNames) /\ UNCHANGED <<pathVars, gwVars, nameVars, cacheVars, launchVars>>

SpecUploadRace == InitUploadRace /\ [][NextUploadRace]_vars

D_PNG == <<"d", ".", "p", "n", "g">>
A_PNG == <<"a", ".", "p", "n", "g">>

\* the names of delete requests: none, a stored image, a missing one, a
\* directory, a stored image behind a directory part, and a refused name
DeleteNames ==
    { <<>>, K_PNG, A_PNG, D_PNG, <<"x", "/">> \o K_PNG, <<"k", ".", "e", "x", "e">> }

\* the image directories before the first delete: as the server finds them
\* on a fresh checkout; both present with an image and a directory in them;
\* the clipboard empty and no screenshots directory
DeleteStartFs ==
    { InitialFs,
      MapSet(MapSet(MapSet(MapSet(InitialFs,
          CLIPBOARD_DIRECTORY_PATH, DirNode),
          Append(CLIPBOARD_DIRECTORY_PATH, K_PNG), STORED_BEFORE),
          Append(CLIPBOARD_DIRECTORY_PATH, D_PNG), DirNode),
          Append(SCREENSHOTS_DIRECTORY_PATH, D_PNG), DirNode),
      MapSet(ChangeFs(InitialFs, SCREENSHOTS_DIRECTORY_PATH, NoNode),
             CLIPBOARD_DIRECTORY_PATH, DirNode) }

\* one delete request, from its arrival to its response
Delete(r) ==
    \/ ScreenshotsDeleteBegin(r, DeleteNames, fs)
    \/ ApiScreenshotsDeleteUnlink(r)
    \/ ApiClipboardDeleteBegin(r, DeleteNames)
    \/ ClipboardMkdir(r)
    \/ EnsureStat(r)
    \/ EnsureRealpath(r)
    \/ EnsureAccessible(r)
    \/ ApiClipboardDeleteUnlink(r)

InitDelete ==
    /\ fs \in DeleteStartFs
    /\ h = [r \in {1, 2} |-> IdleHandler]
    /\ resp = [r \in {1, 2} |-> NoResponse]
    /\ lastOp = NoOp
    /\ PathQuiet /\ GwQuiet /\ NameQuiet /\ CacheQuiet /\ LaunchQuiet

\* a delete, and a second one sent when the first has been answered
NextDelete ==
    \/ Delete(1) /\ UNCHANGED <<pathVars, gwVars, nameVars, cacheVars, launchVars>>
    \/ h[1].pc = "done" /\ Delete(2) /\ UNCHANGED <<pathVars, gwVars, nameVars, cacheVars, launchVars>>

SpecDelete == InitDelete /\ [][NextDelete]_vars

InitGateway == GwStarted(CONFIGURED_SECRET) /\ FsQuiet /\ PathQuiet /\ NameQuiet /\ CacheQuiet /\ LaunchQuiet

NextGateway ==
    \/ ClientRequest /\ UNCHANGED <<pathVars, fsVars, nameVars, cacheVars, launchVars>>
    \/ TickMs /\ UNCHANGED <<pathVars, fsVars, nameVars, cacheVars, launchVars>>
    \/ TickStep /\ UNCHANGED <<pathVars, fsVars, nameVars, cacheVars, launchVars>>

SpecGateway == InitGateway /\ [][NextGateway]_vars

NextBrowser == BrowserRequest /\ UNCHANGED <<pathVars, fsVars, nameVars, cacheVars, launchVars>>

SpecBrowser == InitGateway /\ [][NextBrowser]_vars

\* the request of slot r has been answered
Answered(r) == h[r].pc = "done"

\* the endpoints of the main repository browser that take a path
PathEndpoints == {"file", "text", "list"}

\* the slot's request names a path that is inside the root as written
RequestInsideLexically(r) ==
    /\ h[r].ep \in PathEndpoints
    /\ h[r].arg # <<>> \/ h[r].ep = "list"
    /\ LexicallyInsideRoot(NormalizedTarget(h[r].arg))

\* the slot's requested path is, or leads through, a symbolic link whose
\* real target exists outside the root
RequestResolvesOutside(r) ==
    /\ RequestInsideLexically(r)
    /\ LET w == fsRealpath(fs, NormalizedTarget(h[r].arg))
       IN  w.found /\ ~LexicallyInsideRoot(w.path)

\* the response carries nothing but a status and an error message
DisclosesNothing(response) ==
    /\ response.status = 400
    /\ response.data = ""
    /\ response.entries = {}
    /\ response.skippedSymlinks = 0
    /\ response.skippedHidden = 0
    /\ response.skippedIgnored = 0

\* C2: a request to /api/file, /api/text or /api/list whose path lies
\* inside the root as written but is, or resolves through, a symbolic link
\* with its real target outside the root is answered with an error, and no
\* content, metadata or directory entry of the target is in the response.
C2_SymlinkEscapeRefused ==
    \A r \in DOMAIN h :
        (Answered(r) /\ RequestResolvesOutside(r)) =>
            /\ DisclosesNothing(resp[r])
            /\ resp[r].error # ""

\* /api/file was asked for the link l while l pointed at the file outside
\* the root, and refused it at the realpath test
C2_Witness ==
    /\ Answered(1)
    /\ h[1].ep = "file"
    /\ h[1].arg = <<"l">>
    /\ fs[LINK_SLOT] = LinkNode(OUTSIDE_FILE)
    /\ fs[OUTSIDE_FILE] = FileNode("SECRET")
    /\ resp[1] = ErrorResponse(400, "Resolved path escapes repository root")

\* C3: every path a handler hands to a filesystem call that reads a
\* directory, opens a file or removes an entry lies within the root as
\* written and after symbolic links are resolved, at the moment of the call.
C3_EveryCallContained ==
    (lastOp.op \in {"readdir", "open", "unlink"}) =>
        /\ LexicallyInsideRoot(lastOp.path)
        /\ lastOp.landed => LexicallyInsideRoot(lastOp.real)

\* the repo-relative path the slot's request names
RequestRepoRelativePath(r) == toRepoRelativePath(NormalizedTarget(h[r].arg))

HasDotSegment(repoRelativePath) ==
    \E i \in 1..Len(SplitSlash(repoRelativePath)) :
        SplitSlash(repoRelativePath)[i] # <<>> /\ Head(SplitSlash(repoRelativePath)[i]) = "."

\* C4: a request to /api/list, /api/text or /api/file whose repo-relative
\* path has a segment starting with "." is rejected without disclosing
\* content, and no entry of a list or tree result has such a segment in its
\* path.
C4_DotPathsBlocked ==
    \A r \in DOMAIN h :
        Answered(r) =>
            /\ (RequestInsideLexically(r) /\ HasDotSegment(RequestRepoRelativePath(r))) =>
                   DisclosesNothing(resp[r])
            /\ h[r].ep \in {"list", "tree"} =>
                   \A e \in resp[r].entries :
                       ~HasDotSegment(IF h[r].ep = "tree" THEN e ELSE e.path)

PathAlphabet == {"/", ".", "r", "a", "NUL", "SOH", "SP"}

RawPaths == StringsUpTo(PathAlphabet, MaxPathLen)

InitPath ==
    /\ rawPath \in RawPaths
    /\ resolveResult = <<>>
    /\ FsQuiet
    /\ GwQuiet
    /\ NameQuiet
    /\ CacheQuiet /\ LaunchQuiet

Resolve ==
    /\ resolveResult = <<>>
    /\ resolveResult' = <<resolveRepoPath(rawPath)>>
    /\ UNCHANGED <<rawPath, fsVars, gwVars, nameVars, cacheVars, launchVars>>

NextPath == Resolve

SpecPath == InitPath /\ [][NextPath]_vars

\* C1 as stated: resolveRepoPath throws or returns the root or a lexical
\* descendant of it, and every raw path whose normalization leaves the root
\* ("..", "../x", an absolute path outside, the sibling root + "r") fails
\* with the 'Path escapes repository root' error.
C1_AsStated ==
    resolveResult # <<>> =>
        LET outcome == resolveResult[1]
        IN  /\ outcome.ok => LexicallyInsideRoot(outcome.path)
            /\ ~LexicallyInsideRoot(NormalizedTarget(rawPath)) =>
                   /\ ~outcome.ok
                   /\ outcome.error = "Path escapes repository root"

\* C1 amended: resolveRepoPath throws or returns the root or a lexical
\* descendant of it; a raw path whose normalization leaves the root is
\* never returned: it fails with 'Path escapes repository root', or with
\* 'Path contains null byte' when it also contains U+0000, which is tested
\* first.
C1_Containment ==
    resolveResult # <<>> =>
        LET outcome == resolveResult[1]
        IN  /\ outcome.ok => LexicallyInsideRoot(outcome.path)
            /\ ~LexicallyInsideRoot(NormalizedTarget(rawPath)) =>
                   /\ ~outcome.ok
                   /\ outcome.error =
                          IF Includes(rawPath, "NUL")
                          THEN "Path contains null byte"
                          ELSE "Path escapes repository root"

\* the sibling directory /rr, which has the root /r as a string prefix, was
\* resolved and refused
C1_Witness ==
    /\ rawPath = <<"/", "r", "r">>
    /\ resolveResult = <<Err("Path escapes repository root")>>

----------------------------------------------------------------------------
(* The gateway: credentials, blocking and the origin of mutations *)

Guarded == Len(secret) > 0 /\ gw.handled

\* C5: with a non-empty password configured, the request handed on to the
\* handlers (next() called) carried a Basic-Auth password equal to the
\* secret and came from a key that was not blocked when it arrived; every
\* other request ends in 401 or 429 and is not handed on.
C5_OnlyAuthenticatedPass ==
    Guarded =>
        /\ gw.next => (CarriesSecret(gw.req) /\ ~gw.blockedOnArrival)
        /\ ~(CarriesSecret(gw.req) /\ ~gw.blockedOnArrival) =>
              (gw.status \in {401, 429} /\ ~gw.next)

\* a wrong password of the secret's length was turned away with 401 and its
\* challenge
C5_Witness ==
    /\ Guarded
    /\ gw.req.authorization = WRONG_CREDENTIALS
    /\ gw.status = 401 /\ gw.challenge /\ ~gw.next

\* C6: from the AUTH_MAX_ATTEMPTS-th wrong password of a key within one
\* window on, and until AUTH_BLOCK_MS has passed since that failure, every
\* request of the key, the right password included, gets 429 with a
\* Retry-After of at least 1; 429 is given in no other case; once the block
\* has passed the right password is accepted again.
C6_BlockedUntilElapsed ==
    Guarded =>
        /\ (gw.blockedOnArrival \/ gw.blockingFailure) =>
              (gw.status = 429 /\ gw.retryAfter >= 1 /\ ~gw.next)
        /\ gw.status = 429 => (gw.blockedOnArrival \/ gw.blockingFailure)
        /\ (gw.afterBlock /\ ~gw.blockedOnArrival /\ CarriesSecret(gw.req)) =>
              (gw.status \notin {401, 429}
               /\ (gw.req.method \notin MutatingMethods => gw.next))

\* the right password was refused with 429 during the block
C6_Witness ==
    /\ Guarded
    /\ gw.blockedOnArrival /\ CarriesSecret(gw.req)
    /\ gw.status = 429 /\ gw.retryAfter >= 1

\* the Origin (or, without one, Referer) of the request is missing, is not
\* a URL, or names another host:port than the request's own authority
OriginMismatch(req) ==
    LET named == IF req.origin # Absent THEN req.origin ELSE req.referer
        own == IF req.xForwardedHost # Absent THEN req.xForwardedHost ELSE req.host
        scheme == IF req.xForwardedProto = Present("https") THEN "https" ELSE "http"
    IN  \/ named = Absent
        \/ ~named[1].parses
        \/ own = Absent
        \/ ~own[1].parses
        \/ normalizeAuthority(ParseUrl(named[1]))
             # normalizeAuthority(ParseUrl(UrlText(scheme, own[1].host, own[1].port)))

CrossOriginMutation ==
    /\ Guarded
    /\ CarriesSecret(gw.req)
    /\ gw.req.method \in MutatingMethods
    /\ OriginMismatch(gw.req)

\* C7 as stated: a mutating request with valid credentials and a bad origin
\* is answered 403 and not handed on.
C7_AsStated == CrossOriginMutation => (gw.status = 403 /\ ~gw.next)

\* C7: a mutating request with valid credentials and a bad origin is never
\* handed on; it is answered 403 when its key was not blocked on arrival and
\* 429 when it was.
C7_CrossOriginRefused ==
    CrossOriginMutation =>
        /\ ~gw.next
        /\ gw.status = IF gw.blockedOnArrival THEN 429 ELSE 403

\* a deletion with the right password and no Origin or Referer got 403
C7_Witness ==
    /\ CrossOriginMutation
    /\ gw.req.method = "DELETE"
    /\ gw.req.origin = Absent /\ gw.req.referer = Absent
    /\ gw.req.host # Absent
    /\ gw.status = 403
----------------------------------------------------------------------------
(* Uploads *)

\* the entries of the clipboard directory
ClipboardEntries(f) ==
    { q \in DOMAIN f : /\ Len(q) = Len(CLIPBOARD_DIRECTORY_PATH) + 1
                       /\ SubSeq(q, 1, Len(CLIPBOARD_DIRECTORY_PATH)) = CLIPBOARD_DIRECTORY_PATH
                       /\ f[q].kind # "none" }

UploadDone(r) == h[r].ep = "upload" /\ h[r].pc = "done"

HasWhitespace(name) == \E i \in 1..Len(name) : name[i] \in {"SP", "TAB"}

BeginsWithDot(name) == name # <<>> /\ name[1] = "."

\* the characters of this module that are outside [A-Za-z0-9._-]
OutsideNameClass == {"SP", "TAB", "/", "\\", "SOH", "NUL"}

HasOutsideCharacter(name) == \E i \in 1..Len(name) : name[i] \in OutsideNameClass

\* the name from its last "." on; empty when it has no "."
FinalExtension(name) ==
    LET dots == {i \in 1..Len(name) : name[i] = "."}
    IN  IF dots = {} THEN <<>>
        ELSE SubSeq(name, CHOOSE i \in dots : \A j \in dots : j <= i, Len(name))

LacksImageExtension(name) ==
    ~\E allowed \in ALLOWED_IMAGE_EXTENSIONS :
        /\ Len(allowed) = Len(FinalExtension(name))
        /\ \A i \in 1..Len(allowed) : LowerChar(FinalExtension(name)[i]) = allowed[i]

BreaksNameRule(name) ==
    \/ HasWhitespace(name)
    \/ BeginsWithDot(name)
    \/ HasOutsideCharacter(name)
    \/ LacksImageExtension(name)

UploadRefused(r) ==
    /\ ClipboardEntries(fs) = ClipboardEntries(h[r].before)
    /\ h[r].pc = "done" => resp[r].status >= 400

\* C9 as stated: an upload whose `name` value breaks a rule is rejected and
\* creates no file in the clipboard directory.
C9_AsStated ==
    \A r \in DOMAIN h :
        (h[r].ep = "upload" /\ BreaksNameRule(h[r].arg)) => UploadRefused(r)

\* the name once its directories and control characters are removed and
\* the whitespace around it is trimmed
CleanedName(name) == Trim(StripControl(PathBasename(name)))

\* C9: an upload is rejected and creates no file in the clipboard directory
\* when its `name` value, with directories and control characters removed
\* and the surrounding whitespace trimmed, breaks a rule.
C9_CleanedNameRefused ==
    \A r \in DOMAIN h :
        (h[r].ep = "upload" /\ BreaksNameRule(CleanedName(h[r].arg))) => UploadRefused(r)

\* the name "a .png" with an image part got as far as the validator and was
\* refused for its space
C9_Witness ==
    /\ UploadDone(1)
    /\ h[1].arg = <<"a", "SP", ".", "p", "n", "g">>
    /\ resp[1].status = 500
    /\ resp[1].error = "Filename cannot contain spaces"
    /\ ClipboardEntries(fs) = ClipboardEntries(h[1].before)

\* C10: validateUploadFilename returns an error exactly for the candidates
\* that are empty, contain whitespace, start with ".", contain a character
\* outside [A-Za-z0-9._-] or have a final extension that is not on the
\* allow-list when lower-cased; whitespace is the reason given whenever the
\* candidate contains any, and the extension when nothing else is wrong.
C10_ValidatorRules ==
    verdict # <<>> =>
        /\ (verdict[1] # NoError) <=> (uploadName = <<>> \/ BreaksNameRule(uploadName))
        /\ HasWhitespace(uploadName) => verdict[1] = "Filename cannot contain spaces"
        /\ ( /\ uploadName # <<>>
             /\ ~HasWhitespace(uploadName)
             /\ ~BeginsWithDot(uploadName)
             /\ ~HasOutsideCharacter(uploadName)
             /\ LacksImageExtension(uploadName) )
           => verdict[1] = "Filename must use an allowed image extension"

\* "a a.png" was refused for its space
C10_Witness ==
    /\ uploadName = <<"a", "SP", "a", ".", "p", "n", "g">>
    /\ verdict = <<"Filename cannot contain spaces">>
----------------------------------------------------------------------------
(* Deleting images *)

DeleteDone(r) == h[r].ep \in {"clipDelete", "shotDelete"} /\ h[r].pc = "done"

ImageDirectory(r) ==
    IF h[r].ep = "clipDelete" THEN CLIPBOARD_DIRECTORY_PATH ELSE SCREENSHOTS_DIRECTORY_PATH

\* the entries of a directory with what they hold
DirectoryContent(f, dir) ==
    LET inside == { q \in DOMAIN f : /\ Len(q) = Len(dir) + 1
                                     /\ SubSeq(q, 1, Len(dir)) = dir
                                     /\ f[q].kind # "none" }
    IN  [q \in inside |-> f[q]]

\* the name of the request passes validation, and where it points
DeletesValidName(r) ==
    /\ h[r].arg # <<>>
    /\ validateUploadFilename(sanitizeUploadFilename(h[r].arg)) = NoError

DeleteTarget(r) == Append(ImageDirectory(r), sanitizeUploadFilename(h[r].arg))

\* the filesystem when the request of slot r had been answered: the second
\* delete finds what the first left
LeftBy(r) == IF r = 1 /\ h[2].pc # "idle" THEN h[2].before ELSE fs

\* C11: a delete of a valid name that names nothing is answered 404 and
\* leaves the directory as it was; a delete of a file is answered 204
\* without a body and removes that file and nothing else; the same delete
\* sent again after either is answered 404.
C11_DeleteIdempotent ==
    /\ \A r \in DOMAIN h :
          (DeleteDone(r) /\ DeletesValidName(r)) =>
             LET dir == ImageDirectory(r)
                 found == NodeAt(h[r].before, DeleteTarget(r))
                 was == DirectoryContent(h[r].before, dir)
                 is == DirectoryContent(LeftBy(r), dir)
             IN  /\ found.kind = "none" => (resp[r].status = 404 /\ is = was)
                 /\ found.kind = "file" =>
                       /\ resp[r].status = 204
                       /\ resp[r].data = "" /\ resp[r].error = "" /\ resp[r].entries = {}
                       /\ DOMAIN is = DOMAIN was \ {DeleteTarget(r)}
                       /\ \A q \in DOMAIN is : is[q] = was[q]
    /\ ( /\ DeleteDone(1) /\ DeleteDone(2)
         /\ DeletesValidName(1)
         /\ h[1].ep = h[2].ep
         /\ DeleteTarget(1) = DeleteTarget(2)
         /\ resp[1].status \in {204, 404} )
       => resp[2].status = 404

\* k.png was deleted from the clipboard with 204 and the same delete, sent
\* again, got 404
C11_Witness ==
    /\ DeleteDone(1) /\ DeleteDone(2)
    /\ h[1].ep = "clipDelete" /\ h[2].ep = "clipDelete"
    /\ h[1].arg = K_PNG /\ h[2].arg = K_PNG
    /\ resp[1].status = 204
    /\ resp[2].status = 404
\* ---------------------------------------------------------------------
\* Control characters in a raw path
\* ---------------------------------------------------------------------

HasControlChar(raw) == \E i \in 1..Len(raw) : raw[i] \in ControlChars

NullByteRefusal ==
    /\ ~resolveResult[1].ok
    /\ resolveResult[1].error = "Path contains null byte"

\* C19 as stated: resolveRepoPath fails with the null-byte error, before any
\* filesystem access, for every raw path that contains U+0000 or any other
\* control character U+0001..U+001F.
C19_AsStated ==
    (resolveResult # <<>> /\ HasControlChar(rawPath)) =>
        (NullByteRefusal /\ lastOp = NoOp)

\* C19 amended: resolveRepoPath fails with the null-byte error, before any
\* filesystem access, for every raw path that contains U+0000; a raw path
\* whose only control characters are others (U+0001..U+001F) is resolved like
\* any other path, and is refused with the null-byte error never.
C19_NullByteRefused ==
    resolveResult # <<>> =>
        /\ lastOp = NoOp
        /\ Includes(rawPath, "NUL") <=> NullByteRefusal

\* a path below the root that holds U+0000 next to an ordinary character was
\* refused
C19_Witness ==
    /\ rawPath = <<"a", "NUL">>
    /\ resolveResult # <<>>
    /\ NullByteRefusal

\* ---------------------------------------------------------------------
\* Status of a refused upload
\* ---------------------------------------------------------------------

\* the upload in slot r fails input validation: the `name` parameter is
\* missing, the cleaned name breaks a rule or names a file that was in the
\* clipboard directory when the request arrived, or the part is not an image
FailsInputValidation(r) ==
    \/ h[r].arg = <<>>
    \/ BreaksNameRule(CleanedName(h[r].arg))
    \/ Append(CLIPBOARD_DIRECTORY_PATH, CleanedName(h[r].arg))
           \in ClipboardEntries(h[r].before)
    \/ h[r].part = "text/plain"

\* C15 as stated: a request that fails input validation (an invalid or
\* already-existing upload filename, a non-image upload, a missing required
\* query parameter) is answered with status 400 and a reason, never with
\* 500; here for the upload endpoint.
C15_ValidationIs400 ==
    \A r \in DOMAIN h :
        (UploadDone(r) /\ FailsInputValidation(r)) =>
            (resp[r].status = 400 /\ resp[r].error # "")

\* ---------------------------------------------------------------------
\* Open access: no password configured
\* ---------------------------------------------------------------------

\* a deletion from another site without credentials
ANONYMOUS_CROSS_SITE_DELETE ==
    [BasicRequest EXCEPT !.method = "DELETE",
                         !.origin = Present(UrlText("https", OTHER_HOST, ""))]

OpenRequests == ClientRequests \cup {ANONYMOUS_CROSS_SITE_DELETE}

\* a request arrives at the server started without a password
OpenRequest ==
    /\ \E req \in OpenRequests : \E d1 \in Delays, d2 \in Delays : Middleware(req, d1, d2)
    /\ UNCHANGED <<secret, inFlight>>

InitOpen == GwStarted(<<>>) /\ FsQuiet /\ PathQuiet /\ NameQuiet /\ CacheQuiet /\ LaunchQuiet

NextOpen ==
    \/ OpenRequest /\ UNCHANGED <<pathVars, fsVars, nameVars, cacheVars, launchVars>>
    \/ TickMs /\ UNCHANGED <<pathVars, fsVars, nameVars, cacheVars, launchVars>>
    \/ TickStep /\ UNCHANGED <<pathVars, fsVars, nameVars, cacheVars, launchVars>>

SpecOpen == InitOpen /\ [][NextOpen]_vars

\* C18: when no password is configured the gateway is bypassed: no request
\* is answered 401, 403 or 429 by it, no auth-failure record is ever
\* created, and every request, the mutating ones with a foreign or missing
\* origin included, is handed on to its handler.
C18_OpenAccess ==
    Len(secret) = 0 =>
        /\ gw.status \notin {401, 403, 429}
        /\ authFailureByIP = <<>>
        /\ gw.handled => gw.next
        /\ (gw.handled /\ gw.req.method \in MutatingMethods /\ OriginMismatch(gw.req))
              => (gw.next /\ gw.status = 0)

\* a deletion from another site without credentials was handed on to its
\* handler
C18_Witness ==
    /\ Len(secret) = 0
    /\ gw.handled
    /\ gw.req = ANONYMOUS_CROSS_SITE_DELETE
    /\ OriginMismatch(gw.req)
    /\ gw.next
    /\ authFailureByIP = <<>>

\* ---------------------------------------------------------------------
\* Accounting of the children in a listing
\* ---------------------------------------------------------------------

ListDone(r) == h[r].ep = "list" /\ h[r].pc = "done" /\ resp[r].status = 200

\* the entries of the directory the request listed
ListedChildren(r) ==
    LET directory == fsRealpath(fs, h[r].absPath).path
    IN  {q \in DOMAIN fs : /\ Len(q) = Len(directory) + 1
                           /\ SubSeq(q, 1, Len(directory)) = directory
                           /\ fs[q].kind # "none"}

ChildName(q) == q[Len(q)]

\* the repo-relative path under which the request names the child: the
\* requested directory joined with the child's name
PathAsListed(r, q) == toRepoRelativePath(Append(h[r].absPath, ChildName(q)))

\* the one way a child is accounted for, in the order of precedence
AccountedAs(r, q, hidden) ==
    IF fs[q].kind = "link" THEN "symlink"
    ELSE IF hidden THEN "hidden"
    ELSE IF fs[q].kind \notin {"file", "dir"} THEN "dropped"
    ELSE IF PathAsListed(r, q) \in h[r].ignoredPathSet THEN "ignored"
    ELSE "entry"

\* the response of slot r counts and lists the children by their class
AccountsFor(r, class(_)) ==
    LET children == ListedChildren(r)
    IN  /\ resp[r].skippedSymlinks = Cardinality({q \in children : class(q) = "symlink"})
        /\ resp[r].skippedHidden = Cardinality({q \in children : class(q) = "hidden"})
        /\ resp[r].skippedIgnored = Cardinality({q \in children : class(q) = "ignored"})
        /\ {e.path : e \in resp[r].entries}
              = {PathAsListed(r, q) : q \in {c \in children : class(c) = "entry"}}
        /\ \A e \in resp[r].entries : e.path \notin h[r].ignoredPathSet
        /\ resp[r].skippedIgnored =
              Cardinality({c \in h[r].candidates :
                              c.childRepoRelativePath \in h[r].ignoredPathSet})

SilentFailure(r) ==
    /\ h[r].oracle.invoked
    /\ h[r].oracle.failed
    /\ (~h[r].oracle.stdout.defined \/ h[r].oracle.stdout.lines = {})

\* C17: when the run of the ignore oracle fails without output, the set it
\* yields is empty and the request goes on as if nothing were ignored: it is
\* not refused as gitignored, it is answered 200, and a listing counts no
\* child in skippedIgnored and has every candidate among its entries.
C17_OracleFailsOpen ==
    \A r \in DOMAIN h :
        (h[r].ep \in {"file", "text", "list"} /\ SilentFailure(r)) =>
            /\ h[r].ignoredPathSet = {}
            /\ h[r].skippedIgnored = 0
            /\ h[r].pc = "done" =>
                  /\ resp[r].error # "Gitignored paths are not accessible"
                  /\ resp[r].status = 200
                  /\ resp[r].skippedIgnored = 0
                  /\ h[r].ep = "list" =>
                        {e.path : e \in resp[r].entries}
                            = {c.childRepoRelativePath : c \in h[r].candidates}

\* the root was listed while git failed without output: a and s are both
\* entries and nothing is counted as ignored
C17_Witness ==
    /\ ListDone(1)
    /\ h[1].arg = <<>>
    /\ SilentFailure(1)
    /\ ~h[1].oracle.stdout.defined
    /\ {<<"a">>, <<"s">>} \subseteq {e.path : e \in resp[1].entries}
    /\ resp[1].skippedIgnored = 0

\* ---------------------------------------------------------------------
\* A child disappears while its directory is listed
\* ---------------------------------------------------------------------

\* the candidates of the listing that the oracle did not report
NotIgnored(r) ==
    {c \in h[r].candidates : c.childRepoRelativePath \notin h[r].ignoredPathSet}

\* C20: in /api/list a child whose stat fails because it disappeared after
\* the directory was read is left out of entries, and the listing is still
\* answered 200 with every other candidate that is not ignored.
C20_VanishedChildOmitted ==
    \A r \in DOMAIN h :
        (h[r].ep = "list" /\ h[r].pc = "done" /\ h[r].candidates # {}) =>
            /\ resp[r].status = 200
            /\ {e.path : e \in resp[r].entries}
                  = {c.childRepoRelativePath : c \in NotIgnored(r) \ h[r].vanished}
            /\ \A c \in h[r].vanished :
                  c.childRepoRelativePath \notin {e.path : e \in resp[r].entries}

\* the file l was deleted after the root had been read: the listing has a
\* and s and not l
C20_Witness ==
    /\ ListDone(1)
    /\ h[1].arg = <<>>
    /\ {c.name : c \in h[1].vanished} = {<<"l">>}
    /\ fs[LINK_SLOT] = NoNode
    /\ {e.path : e \in resp[1].entries} = {<<"a">>, <<"s">>}

\* ---------------------------------------------------------------------
\* The conditional cache responder
\* ---------------------------------------------------------------------

\* the pieces an If-None-Match value is made of: separators, the wildcard,
\* the weak tag of a 4-byte file modified at 7300.5 ms, a weak tag of
\* another time, the strong form of the first, and other text
TagPieces ==
    {",", "SP", "*", "W/\"4-7300\"", "W/\"4-7000\"", "\"4-7300\"", "x"}

IfNoneMatchValues ==
    {<<>>} \cup {<<text>> : text \in StringsUpTo(TagPieces, MaxHeaderLen)}

IfModifiedSinceValues ==
    {<<>>} \cup {<<text>> : text \in {NoDate, HttpDate(6), HttpDate(7), HttpDate(8),
                                      IsoDate(6999), IsoDate(7300)}}

StatsValues ==
    { [size |-> 4, mtimeUs |-> STORED_MTIME_US],
      [size |-> 4, mtimeUs |-> 7000000],
      [size |-> 0, mtimeUs |-> STORED_MTIME_US] }

InitCache ==
    /\ conditional \in [ifNoneMatch : IfNoneMatchValues,
                        ifModifiedSince : IfModifiedSinceValues,
                        stats : StatsValues]
    /\ notModified = <<>>
    /\ FsQuiet /\ PathQuiet /\ GwQuiet /\ NameQuiet /\ LaunchQuiet

\* setImageCacheHeaders asks shouldRespondNotModified
Decide ==
    /\ notModified = <<>>
    /\ notModified' = <<shouldRespondNotModified(conditional.ifNoneMatch,
                                                 conditional.ifModifiedSince,
                                                 buildWeakETag(conditional.stats),
                                                 conditional.stats.mtimeUs)>>
    /\ UNCHANGED <<conditional, pathVars, fsVars, gwVars, nameVars, launchVars>>

NextCache == Decide

SpecCache == InitCache /\ [][NextCache]_vars

\* W/"<size>-<floor(mtimeMs)>"
ExpectedTag(stats) ==
    "W/\"" \o ToString(stats.size) \o "-"
           \o ToString((stats.mtimeUs - (stats.mtimeUs % 1000)) \div 1000) \o "\""

\* the pieces i..j are one of the comma-separated values of the header
IsValueOf(header, i, j) ==
    /\ i = 1 \/ header[i - 1] = ","
    /\ j = Len(header) \/ header[j + 1] = ","
    /\ \A k \in i..j : header[k] # ","

\* some comma-separated value of the header, trimmed, is the tag or "*"
SomeValueMatches(header, tag) ==
    /\ header # <<>>
    /\ \E i \in 1..Len(header[1]) : \E j \in i..Len(header[1]) :
          /\ IsValueOf(header[1], i, j)
          /\ JoinText(Trim(SubSeq(header[1], i, j))) \in {tag, "*"}

\* If-Modified-Since parses to a time not before the modification time
\* truncated to whole seconds
SinceSatisfied(header, stats) ==
    /\ header # <<>>
    /\ header[1].form # "garbage"
    /\ header[1].ms * 1000 >= stats.mtimeUs - (stats.mtimeUs % 1000000)

\* C13: the cache responder answers NotModified exactly when some
\* comma-separated, trimmed If-None-Match value equals the weak tag
\* W/"<size>-<floor(mtimeMs)>" or is "*", or else If-Modified-Since parses to
\* a time at or after the modification time truncated to whole seconds,
\* also when an If-None-Match header is present and matches nothing;
\* otherwise it answers Serve.
C13_NotModifiedExactly ==
    notModified # <<>> =>
        (notModified[1] <=>
            \/ SomeValueMatches(conditional.ifNoneMatch, ExpectedTag(conditional.stats))
            \/ SinceSatisfied(conditional.ifModifiedSince, conditional.stats))

\* an If-None-Match with a stale tag and an If-Modified-Since of the second
\* of the modification: NotModified
C13_Witness ==
    /\ notModified = <<TRUE>>
    /\ conditional.stats = [size |-> 4, mtimeUs |-> STORED_MTIME_US]
    /\ conditional.ifNoneMatch = << <<"W/\"4-7000\"", ",", "x">> >>
    /\ conditional.ifModifiedSince = <<HttpDate(7)>>

\* ---------------------------------------------------------------------
\* Revalidation of an uploaded image
\* ---------------------------------------------------------------------

UPLOADED_IMAGE == Append(CLIPBOARD_DIRECTORY_PATH, A_PNG)

\* GET /api/clipboard/file, from its arrival to its response
ClipboardFile(r, names, validators) ==
    \/ ApiClipboardFileBegin(r, names, validators)
    \/ ClipboardMkdir(r)
    \/ EnsureStat(r)
    \/ EnsureRealpath(r)
    \/ EnsureAccessible(r)
    \/ ApiClipboardFileResolve(r)
    \/ ApiClipboardFileStat(r)
    \/ ImageStream(r)

\* what the client sends with its second GET: the ETag it was given, alone
\* or after another tag, another tag alone, or nothing
Revalidations ==
    { [ifNoneMatch |-> <<<<resp[2].etag>>>>, ifModifiedSince |-> <<>>],
      [ifNoneMatch |-> <<<<"W/\"0-0\"", ",", "SP", resp[2].etag>>>>, ifModifiedSince |-> <<>>],
      [ifNoneMatch |-> <<<<"W/\"0-0\"">>>>, ifModifiedSince |-> <<>>],
      NoValidators }

\* another program rewrites, touches or removes the uploaded image between
\* the two GETs
ImageRewritten ==
    /\ h[2].pc = "done" /\ h[3].pc = "idle"
    /\ NodeAt(fs, UPLOADED_IMAGE).kind = "file"
    /\ \E node \in {NoNode, FileNodeAt("EDITED", fs[UPLOADED_IMAGE].mtimeUs),
                    FileNodeAt(fs[UPLOADED_IMAGE].data, TOUCHED_MTIME_US)} :
          /\ node # fs[UPLOADED_IMAGE]
          /\ fs' = MapSet(fs, UPLOADED_IMAGE, node)
    /\ UNCHANGED <<h, resp, lastOp>>

InitRevalidate ==
    /\ fs \in UploadStartFs
    /\ h = [r \in {1, 2, 3} |-> IdleHandler]
    /\ resp = [r \in {1, 2, 3} |-> NoResponse]
    /\ lastOp = NoOp
    /\ PathQuiet /\ GwQuiet /\ NameQuiet /\ CacheQuiet /\ LaunchQuiet

\* an upload, then a GET of the uploaded name, then a second GET
NextRevalidate ==
    \/ Upload(1, {A_PNG, K_PNG}) /\ UNCHANGED <<pathVars, gwVars, nameVars, cacheVars, launchVars>>
    \/ /\ h[1].pc = "done"
       /\ ClipboardFile(2, {h[1].arg}, {NoValidators})
       /\ UNCHANGED <<pathVars, gwVars, nameVars, cacheVars, launchVars>>
    \/ /\ h[2].pc = "done"
       /\ ClipboardFile(3, {h[1].arg}, Revalidations)
       /\ UNCHANGED <<pathVars, gwVars, nameVars, cacheVars, launchVars>>
    \/ ImageRewritten /\ UNCHANGED <<pathVars, gwVars, nameVars, cacheVars, launchVars>>

SpecRevalidate == InitRevalidate /\ [][NextRevalidate]_vars

\* a.png was uploaded with success by the request of slot 1
UploadedAPng ==
    /\ UploadDone(1)
    /\ h[1].arg = A_PNG
    /\ resp[1].status = 200

\* the request of slot r was a GET of a.png that has been answered
FetchedAPng(r) == h[r].ep = "clipFile" /\ h[r].pc = "done" /\ h[r].arg = A_PNG

\* the second GET carries the ETag of the first in If-None-Match and the
\* file is as the first GET found it
RevalidatesUnchanged ==
    /\ h[3].ifNoneMatch # <<>>
    /\ \E i \in 1..Len(h[3].ifNoneMatch[1]) : h[3].ifNoneMatch[1][i] = resp[2].etag
    /\ h[3].before = h[2].before
    /\ fs = h[3].before

\* C12: after a successful upload of a.png, GET /api/clipboard/file?name=a.png
\* is answered 200 with an ETag; a later GET that carries that ETag in
\* If-None-Match, the file unchanged, is answered 304 with an empty body,
\* the same ETag, Last-Modified and Cache-Control, and no Content-Type or
\* Content-Length.
C12_RevalidationIs304 ==
    (UploadedAPng /\ FetchedAPng(2)) =>
        /\ resp[2].status = 200
        /\ resp[2].etag # ""
        /\ resp[2].data = h[1].body
        /\ (FetchedAPng(3) /\ RevalidatesUnchanged) =>
              /\ resp[3].status = 304
              /\ resp[3].data = ""
              /\ resp[3].etag = resp[2].etag
              /\ resp[3].lastModified = resp[2].lastModified
              /\ resp[3].lastModified # <<>>
              /\ resp[3].cacheControl = IMAGE_CACHE_CONTROL
              /\ resp[3].cacheControl = resp[2].cacheControl
              /\ resp[3].contentType = ""
              /\ resp[3].contentLength = ""

\* the uploaded a.png was fetched, and fetched again with the ETag of the
\* first answer: 304
C12_Witness ==
    /\ UploadedAPng
    /\ FetchedAPng(2)
    /\ FetchedAPng(3)
    /\ resp[2].etag = "W/\"2-9100\""
    /\ h[3].ifNoneMatch = <<<<resp[2].etag>>>>
    /\ resp[3].status = 304
    /\ resp[3].etag = resp[2].etag

\* ---------------------------------------------------------------------
\* Validators on the streaming endpoints
\* ---------------------------------------------------------------------

VISIBLE_IMAGE == Append(REPO_ROOT, K_PNG)
CLIPBOARD_IMAGE == Append(CLIPBOARD_DIRECTORY_PATH, K_PNG)

\* a repository with an image at its root, in the clipboard directory and
\* in the screenshots directory
ImagesStartFs ==
    MapSet(MapSet(MapSet(InitialFs,
        VISIBLE_IMAGE, FileNode("SHOT")),
        CLIPBOARD_DIRECTORY_PATH, DirNode),
        CLIPBOARD_IMAGE, FileNode("SHOT"))

StoredImages == {VISIBLE_IMAGE, CLIPBOARD_IMAGE, SCREENSHOT_FILE}

\* the validators a browser sends: none, the tag or the date of the stored
\* images, an older tag or date
ImageValidators ==
    [ifNoneMatch : {<<>>, <<<<"W/\"4-7300\"">>>>, <<<<"W/\"4-7000\"">>>>},
     ifModifiedSince : {<<>>, <<HttpDate(7)>>, <<HttpDate(6)>>}]

\* /api/file is asked for an image, a text-like file, a nested file and a
\* missing image
StreamPathArgs == {K_PNG, <<"a">>, <<"s", "/", "b">>, A_PNG}

StreamNameArgs == {K_PNG, A_PNG, <<"a">>}

\* one GET of a streaming endpoint, from its arrival to its response
Stream(r) ==
    \/ BeginPathRead(r, "file", StreamPathArgs, ImageValidators)
    \/ ReadStat(r)
    \/ ApiFileStream(r)
    \/ ApiClipboardFileBegin(r, StreamNameArgs, ImageValidators)
    \/ ClipboardMkdir(r)
    \/ ApiClipboardFileResolve(r)
    \/ ApiClipboardFileStat(r)
    \/ ApiScreenshotsFileBegin(r, StreamNameArgs, ImageValidators)
    \/ ApiScreenshotsFileStat(r)
    \/ ApiScreenshotsFileRealpath(r)
    \/ ImageStream(r)
    \/ EnsureStat(r)
    \/ EnsureRealpath(r)
    \/ EnsureAccessible(r)
    \/ Close(r)

\* another program touches a stored image between two requests
ImageTouched ==
    /\ \A r \in DOMAIN h : h[r].pc = "idle"
    /\ \E p \in StoredImages :
          /\ NodeAt(fs, p) = FileNode("SHOT")
          /\ fs' = MapSet(fs, p, FileNodeAt("SHOT", TOUCHED_MTIME_US))
    /\ UNCHANGED <<h, resp, lastOp>>

InitImages ==
    /\ fs = ImagesStartFs
    /\ h = [r \in {1} |-> IdleHandler]
    /\ resp = [r \in {1} |-> NoResponse]
    /\ lastOp = NoOp
    /\ PathQuiet /\ GwQuiet /\ NameQuiet /\ CacheQuiet /\ LaunchQuiet

NextImages ==
    \/ Stream(1) /\ UNCHANGED <<pathVars, gwVars, nameVars, cacheVars, launchVars>>
    \/ ImageTouched /\ UNCHANGED <<pathVars, gwVars, nameVars, cacheVars, launchVars>>

SpecImages == InitImages /\ [][NextImages]_vars

StreamEndpoints == {"file", "clipFile", "shotFile"}

\* the request of slot r has been answered with the file or with 304
Served(r) ==
    /\ h[r].ep \in StreamEndpoints
    /\ h[r].pc = "done"
    /\ resp[r].status \in {200, 304}

\* the file the request of slot r names, as it is stored
NamedFile(r) == fsStat(fs, h[r].absPath).node

\* the validators sent with the request of slot r match the stored file
ValidatorsMatch(r) ==
    \/ SomeValueMatches(h[r].ifNoneMatch, ExpectedTag(StatsOf(NamedFile(r))))
    \/ SinceSatisfied(h[r].ifModifiedSince, StatsOf(NamedFile(r)))

\* the response of slot r has the three cache headers of the stored file
HasValidators(r) ==
    /\ resp[r].etag = ExpectedTag(StatsOf(NamedFile(r)))
    /\ resp[r].lastModified # <<>>
    /\ resp[r].cacheControl = IMAGE_CACHE_CONTROL

\* the answer of slot r is a validated one: 200 with the validators when
\* the request's validators do not match, 304 when they do
AnswersConditionally(r) ==
    /\ resp[r].status = 200 => (HasValidators(r) /\ ~ValidatorsMatch(r))
    /\ ValidatorsMatch(r) => resp[r].status = 304

\* C14 as stated: every 200 of /api/file, /api/clipboard/file and
\* /api/screenshots/file has ETag, Last-Modified and the image Cache-Control
\* and each endpoint answers a matching conditional request with 304, for
\* every file type the endpoint can serve.
C14_AsStated ==
    \A r \in DOMAIN h : Served(r) => AnswersConditionally(r)

\* the request of slot r is for an image: any file of the two image
\* endpoints, and for /api/file a path whose extension has an image type
ImageRequest(r) ==
    \/ h[r].ep \in {"clipFile", "shotFile"}
    \/ ToLowerCase(PathExtname(h[r].absPath[Len(h[r].absPath)])) \in ALLOWED_IMAGE_EXTENSIONS

\* C14 amended: every 200 of /api/clipboard/file and /api/screenshots/file,
\* and every 200 of /api/file for a path with an image type, has ETag,
\* Last-Modified and the image Cache-Control, and a matching conditional
\* request for such a file is answered 304; a 200 of /api/file for any other
\* type has none of the three headers and a conditional request for it is
\* answered 200.
C14_ImagesValidated ==
    \A r \in DOMAIN h :
        Served(r) =>
            IF ImageRequest(r) THEN AnswersConditionally(r)
            ELSE /\ resp[r].status = 200
                 /\ resp[r].etag = ""
                 /\ resp[r].lastModified = <<>>
                 /\ resp[r].cacheControl = ""

\* /api/file served k.png with its validators after the image had been
\* touched, to a request that carried the old tag
C14_Witness ==
    /\ Served(1)
    /\ h[1].ep = "file"
    /\ h[1].arg = K_PNG
    /\ h[1].ifNoneMatch = <<<<"W/\"4-7300\"">>>>
    /\ resp[1].status = 200
    /\ resp[1].etag = "W/\"4-12000\""
    /\ resp[1].contentType = "image/png"

----------------------------------------------------------------------------
(* The launcher: funnel mode needs a password *)

\* arguments written on the command line
MaxArgs == 3

LAUNCH_PASSWORD == <<"p", "w">>
CONFIG_PASSWORD == <<"c", "f">>
PORT_TEXT == <<"8", "0">>

ArgvWords ==
    {FLAG_PORT, FLAG_NO_SERVE, FLAG_FUNNEL, FLAG_PASSWORD, FLAG_SERVE,
     LAUNCH_PASSWORD, PORT_TEXT, <<>>}

Environments ==
    [REMOTE_WS_PASSWORD : {Absent, Present(<<>>), Present(LAUNCH_PASSWORD)},
     configPassword : {<<>>, CONFIG_PASSWORD},
     tailscaleReady : BOOLEAN]

InitLaunch ==
    /\ argv \in StringsUpTo(ArgvWords, MaxArgs)
    /\ env \in Environments
    /\ launched = <<>>
    /\ FsQuiet /\ PathQuiet /\ GwQuiet /\ NameQuiet /\ CacheQuiet

\* the launcher runs
Launch ==
    /\ launched = <<>>
    /\ launched' = <<main(argv, env)>>
    /\ UNCHANGED <<argv, env, pathVars, fsVars, gwVars, nameVars, cacheVars>>

NextLaunch == Launch

SpecLaunch == InitLaunch /\ [][NextLaunch]_vars

\* parseArgs returned to main
Parsed == launched # <<>> /\ launched[1].args.exit = -1

ServeModeGiven ==
    \E i \in 1..Len(argv) : argv[i] \in {FLAG_SERVE, FLAG_NO_SERVE, FLAG_FUNNEL}

\* C21: whenever parseArgs returns, funnel mode is enabled only with
\* password auth enabled and a non-empty password, which is the
\* REMOTE_WS_PASSWORD of the server main spawns, and main turns the funnel
\* on only then; with password auth enabled and none of --serve, --no-serve
\* and --funnel on the command line, serve mode is disabled.
C21_FunnelNeedsPassword ==
    Parsed =>
        LET args == launched[1].args
        IN  /\ args.funnelEnabled =>
                (args.passwordEnabled /\ args.workspacePassword # <<>>)
            /\ launched[1].funnel => args.funnelEnabled
            /\ launched[1].child # <<>> => launched[1].child[1] = args.workspacePassword
            /\ (args.passwordEnabled /\ ~ServeModeGiven) =>
                (~args.serveEnabled /\ ~launched[1].serve)

\* --funnel with the password taken from the config file: the funnel is
\* turned on and the server gets that password
C21_Witness ==
    /\ Parsed
    /\ argv = <<FLAG_PASSWORD, FLAG_FUNNEL>>
    /\ env.REMOTE_WS_PASSWORD = Absent
    /\ launched[1].funnel
    /\ launched[1].child = <<CONFIG_PASSWORD>>

----------------------------------------------------------------------------
(* The failure record of a key *)

\* the step is a request whose failure was recorded under its key
FailureRecorded ==
    /\ authFailureByIP' # authFailureByIP
    /\ HasRecord(authFailureByIP', clientIPAddress(gw'.req))

\* C22: a recorded failure starts, at a clock reading t taken while the
\* request is handled, a fresh window {windowStartAt: t, failures: 1,
\* blockedUntil: 0} when the key has no record or its window began
\* AUTH_WINDOW_MS or more before t; otherwise it adds one to failures and
\* leaves the start of the window alone, unless the count reaches
\* AUTH_MAX_ATTEMPTS, when the record becomes {windowStartAt: t, failures: 0,
\* blockedUntil: t + AUTH_BLOCK_MS} and the answer is 429; every other
\* recorded failure is answered 401 with the challenge.
C22_FailureTransition ==
    [][FailureRecorded =>
          LET ip == clientIPAddress(gw'.req)
              after == authFailureByIP'[ip]
          IN  \E t \in now..now' :
                 LET fresh == \/ ~HasRecord(authFailureByIP, ip)
                              \/ t - authFailureByIP[ip].windowStartAt >= AUTH_WINDOW_MS
                 IN  IF fresh
                     THEN /\ after = [windowStartAt |-> t, failures |-> 1,
                                      blockedUntil |-> 0]
                          /\ gw'.status = 401 /\ gw'.challenge
                     ELSE IF authFailureByIP[ip].failures + 1 = AUTH_MAX_ATTEMPTS
                     THEN /\ after = [windowStartAt |-> t, failures |-> 0,
                                      blockedUntil |-> t + AUTH_BLOCK_MS]
                          /\ gw'.status = 429 /\ ~gw'.challenge
                     ELSE /\ after = [authFailureByIP[ip] EXCEPT !.failures = @ + 1]
                          /\ gw'.status = 401 /\ gw'.challenge]_vars

\* a failure late in a window was counted without moving the window's start
C22_Witness ==
    /\ Guarded
    /\ gw.status = 401 /\ gw.challenge
    /\ HasRecord(authFailureByIP, clientIPAddress(gw.req))
    /\ authFailureByIP[clientIPAddress(gw.req)].failures = 2
    /\ authFailureByIP[clientIPAddress(gw.req)].windowStartAt = 0
    /\ now >= CLOCK_STEP

\* the keys that have a record
RecordedKeys == DOMAIN authFailureByIP

\* the window of the record began AUTH_WINDOW_MS or more ago and no block
\* of it lasts
Expired(record) ==
    /\ now - record.windowStartAt >= AUTH_WINDOW_MS
    /\ record.blockedUntil <= now

\* C23 as stated: no record in the map has expired.
C23_AsStated ==
    \A ip \in RecordedKeys : ~Expired(authFailureByIP[ip])

\* the key made a wrong-password attempt and has not authenticated since
HasFailed(ip) == AttemptsOf(ip) # NoAttempts

\* C23: a key has a record exactly when it made a wrong-password attempt
\* that no successful authentication has followed; a record appears only in
\* a step that answers a request of the key without the password with 401
\* or 429, and disappears only in a step that accepts the password from the
\* key, so the passing of time removes no record.
C23_RecordLifecycle ==
    /\ [](\A ip \in RecordedKeys \cup DOMAIN attempts :
              HasRecord(authFailureByIP, ip) <=> HasFailed(ip))
    /\ [][/\ \A ip \in RecordedKeys' \ RecordedKeys :
                /\ ip = clientIPAddress(gw'.req)
                /\ ~CarriesSecret(gw'.req)
                /\ gw'.status \in {401, 429}
          /\ \A ip \in RecordedKeys \ RecordedKeys' :
                /\ ip = clientIPAddress(gw'.req)
                /\ CarriesSecret(gw'.req)
                /\ gw'.status \notin {401, 429}]_vars

\* a record whose window ended long ago is still in the map
C23_Witness ==
    /\ Guarded
    /\ \E ip \in RecordedKeys :
          /\ authFailureByIP[ip] = [windowStartAt |-> 0, failures |-> 1, blockedUntil |-> 0]
          /\ now >= AUTH_WINDOW_MS + CLOCK_STEP

----------------------------------------------------------------------------
(* Requests in flight together *)

\* connections open at once
MaxInFlight == 3

\* a middleware that awaits between reading the count and writing it
MiddlewareAwaitsBeforeWrite == {"write"}

\* the awaits of the gateway middleware and of recordAuthFailure: none,
\* both are synchronous functions
MiddlewareAwaits == {}

\* failing requests of one key
FailingRequests ==
    { [BasicRequest EXCEPT !.authorization = WRONG_CREDENTIALS],
      [BasicRequest EXCEPT !.authorization = Absent],
      [BasicRequest EXCEPT !.authorization = WRONG_CREDENTIALS,
                           !.xForwardedFor = FORWARDED_FIRST] }

\* a request is received on connection c; its 'request' event waits for the
\* event loop
Arrive(c) ==
    /\ c \in 1..MaxInFlight
    /\ c \in DOMAIN inFlight => inFlight[c].pc = "done"
    /\ \E req \in FailingRequests :
          inFlight' = MapSet(inFlight, c, [pc |-> "arrived", req |-> req,
                                           existing |-> <<>>, status |-> 0])
    /\ UNCHANGED <<secret, now, authFailureByIP, gw, attempts>>

\* the event loop runs the middleware for the request of connection c up
\* to its next await, or to its end
Run(c) ==
    /\ c \in DOMAIN inFlight
    /\ LET req == inFlight[c].req
           ip == clientIPAddress(req)
       IN  IF MiddlewareAwaits = {}
           THEN /\ inFlight[c].pc = "arrived"
                /\ \E d1 \in Delays, d2 \in Delays : Middleware(req, d1, d2)
                /\ inFlight' = [inFlight EXCEPT ![c].pc = "done",
                                                ![c].status = gw'.status]
           ELSE IF inFlight[c].pc = "arrived"
           THEN /\ inFlight' = [inFlight EXCEPT ![c].pc = "awaiting",
                                                ![c].existing = authFailureByIP]
                /\ UNCHANGED <<now, authFailureByIP, gw, attempts>>
           ELSE /\ inFlight[c].pc = "awaiting"
                /\ LET failure == recordAuthFailure(inFlight[c].existing, ip, now)
                       status == IF failure.blockedUntil # 0 THEN 429 ELSE 401
                   IN  /\ authFailureByIP' = MapSet(authFailureByIP, ip, failure.map[ip])
                       /\ attempts' = MapSet(attempts, ip,
                                             AttemptsAfter(AttemptsOf(ip), now, now,
                                                           FALSE, FALSE))
                       /\ gw' = [NoOutcome EXCEPT !.handled = TRUE, !.req = req,
                                                  !.status = status]
                       /\ inFlight' = [inFlight EXCEPT ![c].pc = "done",
                                                       ![c].status = status]
                /\ UNCHANGED now
    /\ UNCHANGED secret

NextInFlight ==
    \/ \E c \in 1..MaxInFlight :
          Arrive(c) /\ UNCHANGED <<pathVars, fsVars, nameVars, cacheVars, launchVars>>
    \/ \E c \in 1..MaxInFlight :
          Run(c) /\ UNCHANGED <<pathVars, fsVars, nameVars, cacheVars, launchVars>>
    \/ TickMs /\ UNCHANGED <<pathVars, fsVars, nameVars, cacheVars, launchVars>>

SpecInFlight == InitGateway /\ [][NextInFlight]_vars

\* the requests received and not yet answered
Waiting == {c \in DOMAIN inFlight : inFlight[c].pc # "done"}

\* C24: whatever requests are in flight together, no failure of a key is
\* lost: after k wrong attempts of a key within one window, k below
\* AUTH_MAX_ATTEMPTS, its record counts failures = k and is not blocked, and
\* the AUTH_MAX_ATTEMPTS-th sets the block; no request is ever suspended
\* between reading the record and writing it.
C24_NoFailureLost ==
    /\ \A c \in DOMAIN inFlight : inFlight[c].pc \in {"arrived", "done"}
    /\ \A ip \in DOMAIN attempts :
          /\ attempts[ip].wrong > 0 =>
                /\ attempts[ip].wrong < AUTH_MAX_ATTEMPTS
                /\ HasRecord(authFailureByIP, ip)
                /\ authFailureByIP[ip].failures = attempts[ip].wrong
                /\ authFailureByIP[ip].blockedUntil = 0
          /\ attempts[ip].blockedAt # -1 =>
                /\ HasRecord(authFailureByIP, ip)
                /\ authFailureByIP[ip].failures = 0
                /\ authFailureByIP[ip].blockedUntil = attempts[ip].blockedAt + AUTH_BLOCK_MS
    /\ \A c \in DOMAIN inFlight :
          inFlight[c].pc = "done" => inFlight[c].status \in {401, 429}

\* with two more requests of the key waiting, a third was the
\* AUTH_MAX_ATTEMPTS-th failure and set the block
C24_Witness ==
    /\ Cardinality(Waiting) = 2
    /\ \E c \in DOMAIN inFlight :
          /\ inFlight[c].pc = "done" /\ inFlight[c].status = 429
          /\ gw.blockingFailure
          /\ authFailureByIP[clientIPAddress(inFlight[c].req)].failures = 0
          /\ authFailureByIP[clientIPAddress(inFlight[c].req)].blockedUntil > now

----------------------------------------------------------------------------
(* The record of a key that presents the password *)

\* the request handled last presented the password from a key that was not
\* blocked
Authenticated == Guarded /\ CarriesSecret(gw.req) /\ ~gw.blockedOnArrival

\* C25: after a request that presents the correct password from a key that
\* is not blocked, the key has no failure record and no counted failure,
\* also when the request was refused with 403 for its origin; a request
\* answered 403 presented the password and leaves no record.
C25_ClearedBeforeOriginCheck ==
    /\ Authenticated =>
          /\ ~HasRecord(authFailureByIP, clientIPAddress(gw.req))
          /\ ~HasFailed(clientIPAddress(gw.req))
    /\ (Guarded /\ gw.status = 403) =>
          /\ Authenticated
          /\ ~HasRecord(authFailureByIP, clientIPAddress(gw.req))

\* a key that had been blocked sent, after its block, a cross-origin
\* deletion with the password: 403, and its record is gone
C25_Witness ==
    /\ Authenticated
    /\ gw.afterBlock
    /\ gw.req.method = "DELETE"
    /\ gw.status = 403
    /\ ~HasRecord(authFailureByIP, clientIPAddress(gw.req))

----------------------------------------------------------------------------
(* Requests of a blocked key *)

\* the step handles a request (the clock stands still while the gateway
\* answers, unless it records a failure)
RequestHandled == now' = now \/ authFailureByIP' # authFailureByIP

\* the record of the key holds a block that ends after the given time
BlockHolds(ip, clock) ==
    HasRecord(authFailureByIP, ip) /\ clock < authFailureByIP[ip].blockedUntil

\* the record of the key holds a block that ended at or before the given
\* time
BlockOver(ip, clock) ==
    /\ HasRecord(authFailureByIP, ip)
    /\ authFailureByIP[ip].blockedUntil # 0
    /\ clock >= authFailureByIP[ip].blockedUntil

\* C26: a request of a key whose block holds is answered 429 with
\* Retry-After the whole seconds, rounded up, until blockedUntil, a value
\* from 1 to AUTH_BLOCK_MS/1000, is not handed on and changes no record,
\* whatever its credentials; the block of a key ends AUTH_BLOCK_MS after
\* the failure that set it; and a request at or after blockedUntil is
\* judged on its credentials: 401 without the password, no 401 or 429 with
\* it.
C26_BlockedKeyUntouched ==
    /\ [](\A ip \in DOMAIN attempts :
              attempts[ip].blockedAt # -1 =>
                  /\ HasRecord(authFailureByIP, ip)
                  /\ authFailureByIP[ip].blockedUntil = attempts[ip].blockedAt + AUTH_BLOCK_MS)
    /\ [][RequestHandled =>
             LET ip == clientIPAddress(gw'.req)
             IN  /\ BlockHolds(ip, now) =>
                       /\ gw'.status = 429 /\ ~gw'.next
                       /\ gw'.retryAfter \in 1..(AUTH_BLOCK_MS \div 1000)
                       /\ gw'.retryAfter * 1000 >= authFailureByIP[ip].blockedUntil - now
                       /\ (gw'.retryAfter - 1) * 1000 < authFailureByIP[ip].blockedUntil - now
                       /\ authFailureByIP' = authFailureByIP
                 /\ BlockOver(ip, now) =>
                       IF CarriesSecret(gw'.req)
                       THEN gw'.status \notin {401, 429}
                       ELSE gw'.status = 401]_vars

\* the password was refused at the last millisecond of a block, with a
\* Retry-After of one second
C26_Witness ==
    /\ Guarded
    /\ CarriesSecret(gw.req)
    /\ gw.status = 429 /\ gw.retryAfter = 1
    /\ HasRecord(authFailureByIP, clientIPAddress(gw.req))
    /\ authFailureByIP[clientIPAddress(gw.req)].blockedUntil = now + 1

----------------------------------------------------------------------------
(* The shape of a failure record *)

\* C27: every stored record has 0 <= failures < AUTH_MAX_ATTEMPTS, a
\* blockedUntil of 0 or of windowStartAt + AUTH_BLOCK_MS, and failures = 0
\* only together with a block; and a failure recorded for a key whose
\* record holds a block (which has ended, or the request would not have
\* been judged) never increments that record but replaces it by a fresh
\* window with failures = 1 and no block.
C27_RecordShape ==
    /\ [](\A ip \in RecordedKeys :
              /\ authFailureByIP[ip].failures \in 0..(AUTH_MAX_ATTEMPTS - 1)
              /\ authFailureByIP[ip].blockedUntil
                    \in {0, authFailureByIP[ip].windowStartAt + AUTH_BLOCK_MS}
              /\ authFailureByIP[ip].failures = 0 => authFailureByIP[ip].blockedUntil > 0)
    /\ [][\A ip \in RecordedKeys \cap RecordedKeys' :
              (authFailureByIP[ip].blockedUntil # 0
               /\ authFailureByIP'[ip] # authFailureByIP[ip]) =>
                  /\ authFailureByIP'[ip].failures = 1
                  /\ authFailureByIP'[ip].blockedUntil = 0
                  /\ authFailureByIP'[ip].windowStartAt >= authFailureByIP[ip].blockedUntil
                  /\ authFailureByIP'[ip].windowStartAt \in now..now']_vars

\* the first wrong password after a block replaced the blocked record by a
\* fresh window
C27_Witness ==
    /\ Guarded
    /\ gw.afterBlock /\ gw.status = 401
    /\ HasRecord(authFailureByIP, clientIPAddress(gw.req))
    /\ authFailureByIP[clientIPAddress(gw.req)].failures = 1
    /\ authFailureByIP[clientIPAddress(gw.req)].blockedUntil = 0
    /\ authFailureByIP[clientIPAddress(gw.req)].windowStartAt >= AUTH_BLOCK_MS

----------------------------------------------------------------------------
(* The key of a request *)

SECOND_KEY == <<"2">>
UNKNOWN_KEY == <<"u", "n", "k", "n", "o", "w", "n">>

\* values of X-Forwarded-For (the HTTP parser has stripped the white space
\* around them): none, the second client alone and at the head of a proxy
\* chain, an empty value, and values whose first piece is empty or blank
ForwardedForValues ==
    { Absent,
      Present(<<"2">>),
      Present(<<"2", "SP", ",", "1">>),
      Present(<<>>),
      Present(<<",", "2">>),
      Present(<<",", "SP", ",", "2">>) }

KeyRequests ==
    { [BasicRequest EXCEPT !.authorization = a, !.xForwardedFor = x] :
          a \in {WRONG_CREDENTIALS, RIGHT_CREDENTIALS}, x \in ForwardedForValues }
    \cup
    { [BasicRequest EXCEPT !.authorization = RIGHT_CREDENTIALS, !.remoteAddress = <<>>] }

\* a client sends a request under its key; the clock stands still, so all
\* failures fall into one window
KeyRequest ==
    /\ \E req \in KeyRequests : Middleware(req, 0, 0)
    /\ UNCHANGED <<secret, inFlight>>

NextKeys == KeyRequest /\ UNCHANGED <<pathVars, fsVars, nameVars, cacheVars, launchVars>>

SpecKeys == InitGateway /\ [][NextKeys]_vars

\* the key as stated: the first piece of a header that is present and not
\* empty, else the address of the connection
StatedKey(req) ==
    IF req.xForwardedFor # Absent /\ req.xForwardedFor[1] # <<>>
    THEN Trim(FirstCommaPiece(req.xForwardedFor[1]))
    ELSE req.remoteAddress

\* the key: the first piece of the header when, trimmed, it is not empty,
\* else the address of the connection, else "unknown"
KeyOf(req) ==
    LET first == IF req.xForwardedFor = Absent THEN <<>>
                 ELSE Trim(FirstCommaPiece(req.xForwardedFor[1]))
    IN  IF first # <<>> THEN first
        ELSE IF req.remoteAddress # <<>> THEN req.remoteAddress
        ELSE UNKNOWN_KEY

\* the records of all keys but one are the same before and after the step
OthersUntouched(key) ==
    \A k \in (RecordedKeys \cup RecordedKeys') \ {key} :
        /\ k \in RecordedKeys /\ k \in RecordedKeys'
        /\ authFailureByIP'[k] = authFailureByIP[k]

\* C28 as stated: a step changes no record but the one of the stated key of
\* its request.
C28_AsStated ==
    [][authFailureByIP' # authFailureByIP => OthersUntouched(StatedKey(gw'.req))]_vars

\* C28: a step changes no record but the one of the key of its request; a
\* request is answered 429 only when the record of its own key holds a
\* block; and every key's record counts fewer than AUTH_MAX_ATTEMPTS
\* failures, each of them a wrong attempt made under that key.
C28_KeysApart ==
    /\ [](\A ip \in RecordedKeys :
              /\ authFailureByIP[ip].failures < AUTH_MAX_ATTEMPTS
              /\ authFailureByIP[ip].failures = AttemptsOf(ip).wrong)
    /\ [][/\ authFailureByIP' # authFailureByIP => OthersUntouched(KeyOf(gw'.req))
          /\ (gw' # gw /\ gw'.status = 429) =>
                /\ HasRecord(authFailureByIP', KeyOf(gw'.req))
                /\ authFailureByIP'[KeyOf(gw'.req)].blockedUntil > now]_vars

\* while the first key is blocked, a wrong password under the second key
\* is answered 401 and counted under the second key
C28_Witness ==
    /\ Guarded
    /\ gw.req.xForwardedFor = Present(<<"2", "SP", ",", "1">>)
    /\ gw.status = 401
    /\ HasRecord(authFailureByIP, <<"1">>)
    /\ authFailureByIP[<<"1">>].blockedUntil > now
    /\ HasRecord(authFailureByIP, SECOND_KEY)
    /\ authFailureByIP[SECOND_KEY].failures = 1

----------------------------------------------------------------------------
(* Named images that are symbolic links *)

\* what another program may have put under an image name: the image
\* itself, or a link to a hidden file, to a visible file or to a file
\* outside the root
LinkedImageChoices ==
    {FileNode("SHOT"), LinkNode(HIDDEN_FILE), LinkNode(VISIBLE_FILE), LinkNode(OUTSIDE_FILE)}

LinkedImagesStartFs ==
    { MapSet(MapSet(ImagesStartFs, CLIPBOARD_IMAGE, c), SCREENSHOT_FILE, s) :
          c \in LinkedImageChoices, s \in LinkedImageChoices }

\* one GET of /api/clipboard/file or /api/screenshots/file, from its arrival
\* to its response
NamedImage(r) ==
    \/ ApiClipboardFileBegin(r, StreamNameArgs, ImageValidators)
    \/ ClipboardMkdir(r)
    \/ ApiClipboardFileResolve(r)
    \/ ApiClipboardFileStat(r)
    \/ ApiScreenshotsFileBegin(r, StreamNameArgs, ImageValidators)
    \/ ApiScreenshotsFileStat(r)
    \/ ApiScreenshotsFileRealpath(r)
    \/ ImageStream(r)
    \/ EnsureStat(r)
    \/ EnsureRealpath(r)
    \/ EnsureAccessible(r)
    \/ Close(r)

InitLinkedImages ==
    /\ fs \in LinkedImagesStartFs
    /\ h = [r \in {1} |-> IdleHandler]
    /\ resp = [r \in {1} |-> NoResponse]
    /\ lastOp = NoOp
    /\ PathQuiet /\ GwQuiet /\ NameQuiet /\ CacheQuiet /\ LaunchQuiet

NextLinkedImages ==
    NamedImage(1) /\ UNCHANGED <<pathVars, gwVars, nameVars, cacheVars, launchVars>>

SpecLinkedImages == InitLinkedImages /\ [][NextLinkedImages]_vars

\* the directory an image endpoint serves
ImageDirectoryOf(ep) ==
    IF ep = "clipFile" THEN CLIPBOARD_DIRECTORY_PATH ELSE SCREENSHOTS_DIRECTORY_PATH

\* C29: a file whose bytes /api/clipboard/file or /api/screenshots/file has
\* sent lies, with every symbolic link resolved, directly inside the
\* endpoint's own directory.
C29_ServedFromOwnDirectory ==
    \A r \in DOMAIN h :
        (h[r].pc = "done" /\ h[r].ep \in {"clipFile", "shotFile"} /\ resp[r].status = 200) =>
            /\ fsRealpath(fs, h[r].absPath).found
            /\ ParentOf(fsRealpath(fs, h[r].absPath).path) = ImageDirectoryOf(h[r].ep)

\* the filesystems the server starts on: a fresh checkout; both image
\* directories present with an image and a directory in them; the
\* screenshots directory a symbolic link to a directory outside the root
WritesStartFs ==
    { InitialFs,
      MapSet(MapSet(MapSet(MapSet(InitialFs,
          CLIPBOARD_DIRECTORY_PATH, DirNode),
          Append(CLIPBOARD_DIRECTORY_PATH, K_PNG), STORED_BEFORE),
          Append(CLIPBOARD_DIRECTORY_PATH, D_PNG), DirNode),
          Append(SCREENSHOTS_DIRECTORY_PATH, D_PNG), DirNode),
      ChangeFs(InitialFs, SCREENSHOTS_DIRECTORY_PATH, LinkNode(OUTSIDE_DIR)) }

InitWrites ==
    /\ fs \in WritesStartFs
    /\ h = [r \in {1, 2} |-> IdleHandler]
    /\ resp = [r \in {1, 2} |-> NoResponse]
    /\ lastOp = NoOp
    /\ PathQuiet /\ GwQuiet /\ NameQuiet /\ CacheQuiet /\ LaunchQuiet

\* the names of the uploads: one that passes the validation and one that
\* does not
WriteNames == { K_PNG, <<"k", ".", "e", "x", "e">> }

\* slot 1 takes its next request when slot 2 is free
Sequenced(r) == h[r].pc = "idle" => h[2].pc = "idle"

\* a second upload arrives while slot 1 handles an upload
Overlapping == h[2].pc = "idle" => (h[1].ep = "upload" /\ h[1].pc \notin {"idle", "done"})

\* requests of every route one after another in slot 1, and in slot 2
\* uploads that overlap an upload of slot 1: Express starts a handler for
\* each request and the event loop interleaves their steps
NextWrites ==
    \/ Sequenced(1) /\ Handle(1)
          /\ UNCHANGED <<pathVars, gwVars, nameVars, cacheVars, launchVars>>
    \/ Sequenced(1) /\ Delete(1)
          /\ UNCHANGED <<pathVars, gwVars, nameVars, cacheVars, launchVars>>
    \/ Sequenced(1) /\ Upload(1, WriteNames)
          /\ UNCHANGED <<pathVars, gwVars, nameVars, cacheVars, launchVars>>
    \/ Overlapping /\ Upload(2, WriteNames)
          /\ UNCHANGED <<pathVars, gwVars, nameVars, cacheVars, launchVars>>
    \/ Close(2) /\ UNCHANGED <<pathVars, gwVars, nameVars, cacheVars, launchVars>>

SpecWrites == InitWrites /\ [][NextWrites]_vars

\* the paths whose node a step changes
ChangedPaths == {p \in DOMAIN fs \cup DOMAIN fs' : NodeAt(fs', p) # NodeAt(fs, p)}

ReadEndpoints == {"list", "tree", "text", "file", "shotList", "shotFile"}
WriteEndpoints == {"upload", "clipDelete", "shotDelete"}

\* p is directly inside one of the directories and its name passes the
\* filename validation
ValidEntryOf(p, directories) ==
    /\ p # <<>>
    /\ ParentOf(p) \in directories
    /\ validateUploadFilename(p[Len(p)]) = NoError

\* fs.mkdir has made .clipboard
CreatesClipboard(p) ==
    /\ p = CLIPBOARD_DIRECTORY_PATH
    /\ NodeAt(fs, p).kind = "none"
    /\ NodeAt(fs', p).kind = "dir"

\* an upload makes a regular file where there was nothing, or fills the
\* empty file it has just made
CreatesNewFile(p) ==
    /\ ValidEntryOf(p, {CLIPBOARD_DIRECTORY_PATH})
    /\ NodeAt(fs', p).kind = "file"
    /\ \/ NodeAt(fs, p).kind = "none"
       \/ /\ NodeAt(fs, p) = FileNodeAt("", WRITTEN_MTIME_US)
          /\ \E r \in DOMAIN h :
                h[r].ep = "upload" /\ h[r].pc = "uploadWrite" /\ h[r].realPath = p

\* a delete removes one entry
UnlinksEntry(p) ==
    /\ ValidEntryOf(p, {CLIPBOARD_DIRECTORY_PATH, SCREENSHOTS_DIRECTORY_PATH})
    /\ NodeAt(fs, p).kind # "none"
    /\ NodeAt(fs', p).kind = "none"
    /\ \E r \in DOMAIN h : h'[r].ep \in {"clipDelete", "shotDelete"} /\ h'[r] # h[r]

\* C30: every change the server makes to the filesystem is the creation of
\* .clipboard, the creation of one new regular file directly inside
\* .clipboard under a validated name, or the removal of one entry directly
\* inside .clipboard or .playwright-mcp under a validated name; a step of
\* /api/list, /api/tree, /api/text, /api/file or a screenshots GET changes
\* nothing, and neither does the step that refuses an upload or a delete.
C30_OnlyStatedChanges ==
    [][ h' # h =>
          /\ fs' # fs =>
                \E p \in ChangedPaths :
                    /\ ChangedPaths = {p}
                    /\ CreatesClipboard(p) \/ CreatesNewFile(p) \/ UnlinksEntry(p)
          /\ \A r \in DOMAIN h :
                (h'[r] # h[r] /\ h'[r].ep \in ReadEndpoints) => fs' = fs
          /\ \A r \in DOMAIN h :
                (h'[r] # h[r] /\ h'[r].ep \in WriteEndpoints /\ resp'[r].status >= 400) =>
                    fs' = fs ]_vars

====
